---- MODULE Spec2Model ----
(***************************************************************************)
(* Voucher service (internal/service) over the voucher repository          *)
(* (internal/repository) and the vouchers table.                           *)
(*                                                                         *)
(* Every service call runs on its own request goroutine; the only shared   *)
(* state is the table.  A call is therefore modelled as a process whose    *)
(* steps are cut at the repository calls: each step does one repository    *)
(* call (one SQL statement, atomic) and the local computation up to the    *)
(* next one.                                                               *)
(***************************************************************************)
EXTENDS Integers, Sequences, FiniteSets, TLC

VARIABLES
    rows,    \* the vouchers table, in insertion order (soft-deleted rows stay)
    nextId,  \* next value of the id sequence
    now,     \* wall clock, hours since 1970-01-01T00:00Z
    tz,      \* offset of the server's local zone from UTC, hours
    proc,    \* per request: position and locals of the running service call
    last,    \* what the service call that has just returned gave back and
             \* did, until the response is written (NoCall otherwise)
    dbUp,    \* whether the database answers; when it does not, every
             \* repository call returns the driver's error
    http     \* the request in the router's handler chain (NoRequest when
             \* none is)

vars == <<rows, nextId, now, tz, proc, last, dbUp, http>>

----------------------------------------------------------------------------
(* Bounds of the model *)

MaxCsvRows == 2   \* data rows of an uploaded CSV file
MaxBatch == 2     \* candidates of a structured batch
NumProcs == 2     \* requests in flight at once

(* Program constants *)

MaxCodeLen == 50
MinDiscount == 1
MaxDiscount == 100
HoursPerDay == 24
MinColumns == 3
ExportLimit == 100000
FirstDataRow == 2

----------------------------------------------------------------------------
(* Input alphabet.  A voucher code is a sequence of characters so that     *)
(* trimming and length are computed; discounts are whole percents; dates   *)
(* and CSV number fields are text that the parsers below interpret.        *)

cA == <<"A">>
cB == <<"B">>
cPadA == <<" ", "A", " ">>
cEmpty == <<>>
cBlank == <<" ">>
cLong == [i \in 1..(MaxCodeLen + 1) |-> "X"]

Nobody == 0

----------------------------------------------------------------------------
(* time.Parse("2006-01-02", s): the day number of a well-formed date, or   *)
(* -1 for text the layout does not accept (single-digit month or day,      *)
(* other separators, free text).                                           *)
BadDate == -1

ParseDate(s) ==
    CASE s = "1970-01-01" -> 0
      [] s = "1970-01-02" -> 1
      [] s = "1970-01-03" -> 2
      [] s = "1970-01-04" -> 3
      [] OTHER -> BadDate

(* Decimal digits of a natural number, as text *)
Digits == <<"0", "1", "2", "3", "4", "5", "6", "7", "8", "9">>

RECURSIVE IntToStr(_)
IntToStr(n) ==
    IF n < 10 THEN Digits[n + 1]
    ELSE IntToStr(n \div 10) \o Digits[(n % 10) + 1]

(* Time.Format("2006-01-02") of a day number of January 1970: four-digit   *)
(* year, two-digit month and day.                                          *)
FormatDate(d) ==
    "1970-01-" \o (IF d + 1 < 10 THEN "0" ELSE "") \o IntToStr(d + 1)

(* The discount written with the default verb (%v) *)
FormatDiscountShortest(x) == IntToStr(x)

(* fmt.Sprintf("%.2f", x) of a float64 holding a whole number *)
FormatDiscount(x) == IntToStr(x) \o ".00"

(* Floor division of an hour count into days (hours may be negative once   *)
(* a zone offset is applied).                                              *)
DayOf(h) == h \div HoursPerDay

(* Calendar day of the instant `now` in the server's zone: now.Year(),     *)
(* now.Month(), now.Day() with now.Location().                             *)
LocalToday == DayOf(now + tz)

(* time.Now().Truncate(24 * time.Hour): Truncate rounds down to a multiple *)
(* of the duration since the zero time, i.e. to midnight UTC.              *)
TruncatedToday == DayOf(now)

(* Create/Update: both dates are rebuilt at midnight in now.Location() and *)
(* compared, so the comparison is between calendar days in the local zone. *)
ExpiredLocal(day) == day < LocalToday

(* validateAndConvert/parseCSVRow: expiryDate (midnight UTC of the parsed  *)
(* day) is compared with now truncated to a multiple of 24h.               *)
ExpiredTruncated(day) == day < TruncatedToday

----------------------------------------------------------------------------
(* strings.TrimSpace on a character sequence *)
RECURSIVE TrimLeft(_)
TrimLeft(s) ==
    IF s # <<>> /\ Head(s) = " " THEN TrimLeft(Tail(s)) ELSE s

RECURSIVE TrimRight(_)
TrimRight(s) ==
    IF s # <<>> /\ s[Len(s)] = " " THEN TrimRight(SubSeq(s, 1, Len(s) - 1)) ELSE s

TrimSpace(s) == TrimRight(TrimLeft(s))

(* strings.TrimSpace on the text of a CSV number or date field *)
TrimField(s) ==
    CASE s = " 50 " -> "50"
      [] s = " 1970-01-03" -> "1970-01-03"
      [] OTHER -> s

(* strconv.ParseFloat(s, 64): the number, or NotANumber for a syntax error *)
NotANumber == -1000

ParseFloat(s) ==
    CASE s = "10" -> 10
      [] s = "50" -> 50
      [] s = "10.00" -> 10
      [] s = "1" -> 1
      [] s = "100" -> 100
      [] s = "0" -> 0
      [] s = "200" -> 200
      [] OTHER -> NotANumber

----------------------------------------------------------------------------
(* The vouchers table and the repository (GORM) calls on it.               *)

Seq2Set(s) == {s[i] : i \in 1..Len(s)}

(* gorm.DeletedAt: every query of the model type carries deleted_at IS NULL *)
IsActive(r) == ~r.deleted

ActiveRows(rs) == SelectSeq(rs, IsActive)

(* The lookup by id without the soft-delete scope (db.Unscoped()) *)
FindByIDUnscoped(rs, id) ==
    LET Test(r) == r.id = id
        found == SelectSeq(rs, Test)
    IN  IF found = <<>> THEN <<>> ELSE <<Head(found)>>

(* db.First(&voucher, id): the active row with that primary key, or none   *)
(* (gorm.ErrRecordNotFound), as a sequence of zero or one row.             *)
FindByID(rs, id) ==
    LET Test(r) == IsActive(r) /\ r.id = id
        found == SelectSeq(rs, Test)
    IN  IF found = <<>> THEN <<>> ELSE <<Head(found)>>

(* db.Where("voucher_code = ?", code).First(&voucher); not-found is turned *)
(* into (nil, nil).                                                        *)
FindByVoucherCode(rs, code) ==
    LET Test(r) == IsActive(r) /\ r.code = code
        found == SelectSeq(rs, Test)
    IN  IF found = <<>> THEN <<>> ELSE <<Head(found)>>

(* Constraints of the table: VARCHAR(50) and the CHECK on discount_percent *)
CheckOk(v) ==
    /\ Len(v.code) <= MaxCodeLen
    /\ v.discount >= MinDiscount
    /\ v.discount <= MaxDiscount

(* The table without its unique index *)
CodeTakenNoIndex(rs, code, exceptId) == FALSE

(* UNIQUE on voucher_code: the index covers every row, soft-deleted ones   *)
(* included (it has no deleted_at condition).                              *)
CodeTaken(rs, code, exceptId) ==
    \E i \in 1..Len(rs) : rs[i].code = code /\ rs[i].id # exceptId

NewRow(id, v, at) ==
    [id |-> id, code |-> v.code, discount |-> v.discount, expiry |-> v.expiry,
     createdAt |-> at, deleted |-> FALSE]

(* The slice inserted one row at a time, each in its own statement: the    *)
(* rows before the first refused one stay in the table.                    *)
BulkCreateRowByRow(rs, nid, vs) ==
    LET n == Len(vs)
        Refused(i) == \/ ~CheckOk(vs[i])
                      \/ CodeTaken(rs, vs[i].code, Nobody)
                      \/ \E j \in 1..(i - 1) : vs[j].code = vs[i].code
        bad == {i \in 1..n : Refused(i)}
        k == IF bad = {} THEN n
             ELSE (CHOOSE i \in bad : \A j \in bad : i <= j) - 1
    IN  <<bad = {}, rs \o [i \in 1..k |-> NewRow(nid + i - 1, vs[i], nid)]>>

(* db.Create(&vouchers): one INSERT statement for the whole slice, so it   *)
(* inserts all of them or none; the rows of one statement share its        *)
(* timestamp.  Result: <<ok, table>>.                                      *)
BulkCreate(rs, nid, vs) ==
    LET n == Len(vs)
        distinct == \A i, j \in 1..n : i # j => vs[i].code # vs[j].code
        ok == /\ \A i \in 1..n : CheckOk(vs[i]) /\ ~CodeTaken(rs, vs[i].code, Nobody)
              /\ distinct
    IN  IF ok THEN <<TRUE, rs \o [i \in 1..n |-> NewRow(nid + i - 1, vs[i], nid)]>>
        ELSE <<FALSE, rs>>

(* db.Create(voucher) *)
RepoCreate(rs, nid, v) == BulkCreate(rs, nid, <<v>>)

(* db.Delete(&entity.Voucher{}, id): UPDATE ... SET deleted_at = now WHERE *)
(* id = ? AND deleted_at IS NULL.  No row is ever removed.                 *)
RepoDelete(rs, id) ==
    [i \in 1..Len(rs) |->
        IF rs[i].id = id /\ IsActive(rs[i]) THEN [rs[i] EXCEPT !.deleted = TRUE]
        ELSE rs[i]]

(* db.Save(voucher) of an entity with a non-zero primary key: UPDATE of    *)
(* all columns WHERE id = ? AND deleted_at IS NULL; when that touches no   *)
(* row, INSERT ... ON CONFLICT (id) DO UPDATE (upsert), which writes the   *)
(* entity's own deleted_at (NULL) over the row with that id.               *)
(* Result: <<ok, table>>.                                                  *)
RepoUpdate(rs, v) ==
    LET ok == CheckOk(v) /\ ~CodeTaken(rs, v.code, v.id)
        exists == \E i \in 1..Len(rs) : rs[i].id = v.id
        written == [i \in 1..Len(rs) |->
                      IF rs[i].id = v.id
                      THEN [rs[i] EXCEPT !.code = v.code, !.discount = v.discount,
                                         !.expiry = v.expiry, !.deleted = FALSE]
                      ELSE rs[i]]
        inserted == rs \o <<[id |-> v.id, code |-> v.code, discount |-> v.discount,
                             expiry |-> v.expiry, createdAt |-> v.createdAt,
                             deleted |-> FALSE]>>
    IN  IF ~ok THEN <<FALSE, rs>>
        ELSE IF exists THEN <<TRUE, written>>
        ELSE <<TRUE, inserted>>

(* The column an ORDER BY clause names, for the numeric columns *)
SortKey(r, sortBy) ==
    CASE sortBy = "created_at" -> r.createdAt
      [] sortBy = "discount_percent" -> r.discount
      [] sortBy = "expiry_date" -> r.expiry
      [] OTHER -> r.id

(* ORDER BY key ASC|DESC over a set of rows: every sequence of the rows    *)
(* that respects the key.  Rows with equal keys come in any order (SQL     *)
(* leaves the order of peers unspecified).                                 *)
RECURSIVE Orderings(_, _, _)
Orderings(S, sortBy, sortOrder) ==
    IF S = {} THEN {<<>>}
    ELSE LET Before(a, b) == IF sortOrder = "desc"
                             THEN SortKey(a, sortBy) >= SortKey(b, sortBy)
                             ELSE SortKey(a, sortBy) <= SortKey(b, sortBy)
             firsts == {r \in S : \A q \in S : Before(r, q)}
         IN  UNION {{<<r>> \o t : t \in Orderings(S \ {r}, sortBy, sortOrder)} :
                    r \in firsts}

(* LOWER() over the letters the codes of the model are written with *)
Lower(ch) ==
    CASE ch = "A" -> "a"
      [] ch = "B" -> "b"
      [] ch = "X" -> "x"
      [] OTHER -> ch

LowerAll(text) == [i \in 1..Len(text) |-> Lower(text[i])]

(* text LIKE pattern: % stands for any run of characters, _ for any one *)
RECURSIVE Like(_, _)
Like(text, pattern) ==
    IF pattern = <<>> THEN text = <<>>
    ELSE IF Head(pattern) = "%"
    THEN Like(text, Tail(pattern)) \/ (text # <<>> /\ Like(Tail(text), pattern))
    ELSE /\ text # <<>>
         /\ Head(pattern) = "_" \/ Head(pattern) = Head(text)
         /\ Like(Tail(text), Tail(pattern))

(* LOWER(voucher_code) LIKE LOWER('%' || search || '%') *)
MatchesSearch(code, search) ==
    Like(LowerAll(code), <<"%">> \o LowerAll(search) \o <<"%">>)

(* FindAll with the page counted from zero *)
FindAllFromZero(rs, page, limit, search, sortBy, sortOrder) ==
    LET active == ActiveRows(rs)
        Matches(r) == MatchesSearch(r.code, search)
        matching == IF search # <<>> THEN SelectSeq(active, Matches) ELSE active
        total == Len(matching)
        offset == page * limit
        by == IF sortBy # "" THEN sortBy ELSE "created_at"
        dir == IF sortBy # "" THEN sortOrder ELSE "desc"
        inOrder == /\ dir = "asc"
                   /\ \A i \in 1..(total - 1) :
                         SortKey(matching[i], by) < SortKey(matching[i + 1], by)
        ordered == IF inOrder THEN {matching}
                   ELSE Orderings(Seq2Set(matching), by, dir)
        skip == IF offset > 0 THEN offset ELSE 0
        takes == IF limit > 0 THEN {limit} ELSE IF limit = 0 THEN {0, total} ELSE {total}
        UpTo(take) == IF skip + take < total THEN skip + take ELSE total
    IN  {<<SubSeq(o, skip + 1, UpTo(take)), total>> : o \in ordered, take \in takes}

(* FindAll(page, limit, search, sortBy, sortOrder): the count of the       *)
(* active rows that match the search, and one page of them in the order    *)
(* asked for (created_at desc when none is).  The result is the set of     *)
(* <<vouchers, total>> the query may return.  A table already in strict    *)
(* ascending order of the key has one ordering, itself.  The statement has *)
(* an OFFSET only for a positive offset and no LIMIT for a negative limit; *)
(* whether Limit(0) gives LIMIT 0 or no LIMIT depends on the release of    *)
(* the ORM, so both are possible.                                          *)
FindAll(rs, page, limit, search, sortBy, sortOrder) ==
    LET active == ActiveRows(rs)
        Matches(r) == MatchesSearch(r.code, search)
        matching == IF search # <<>> THEN SelectSeq(active, Matches) ELSE active
        total == Len(matching)
        offset == (page - 1) * limit
        by == IF sortBy # "" THEN sortBy ELSE "created_at"
        dir == IF sortBy # "" THEN sortOrder ELSE "desc"
        inOrder == /\ dir = "asc"
                   /\ \A i \in 1..(total - 1) :
                         SortKey(matching[i], by) < SortKey(matching[i + 1], by)
        ordered == IF inOrder THEN {matching}
                   ELSE Orderings(Seq2Set(matching), by, dir)
        skip == IF offset > 0 THEN offset ELSE 0
        takes == IF limit > 0 THEN {limit} ELSE IF limit = 0 THEN {0, total} ELSE {total}
        UpTo(take) == IF skip + take < total THEN skip + take ELSE total
    IN  {<<SubSeq(o, skip + 1, UpTo(take)), total>> : o \in ordered, take \in takes}

(* The existence query without the soft-delete scope *)
CheckDuplicateCodesUnscoped(rs, codes) ==
    LET Test(r) == r.code \in Seq2Set(codes)
        found == SelectSeq(rs, Test)
    IN  [i \in 1..Len(found) |-> found[i].code]

(* db.Model(&Voucher{}).Where("voucher_code IN ?", codes).Pluck(...): the  *)
(* codes of the active rows whose code is among the given ones.            *)
CheckDuplicateCodes(rs, codes) ==
    LET Test(r) == IsActive(r) /\ r.code \in Seq2Set(codes)
        found == SelectSeq(rs, Test)
    IN  [i \in 1..Len(found) |-> found[i].code]

----------------------------------------------------------------------------
(* Results of a service call: the reason of the error it returns, Ok for a *)
(* returned entity, Report for a returned import result.                   *)

Ok == "Ok"
Report == "report"
DuplicateCode == "voucher code already exists"
InvalidDateFormat == "invalid date format"
ExpiryInPast == "expiry date must be today or in the future"
NotFound == "voucher not found"
PersistenceError == "persistence error"
EmptyCode == "voucher code is required"
CodeTooLong == "voucher code exceeds 50 characters"
DiscountOutOfRange == "discount percent out of range"
InvalidDiscount == "invalid discount percent"
InsufficientColumns == "insufficient columns"
EmptyImport == "CSV file is empty or has no data rows"
MalformedInput == "failed to read CSV file"
LookupFailed == "failed to check voucher code"

----------------------------------------------------------------------------
(* Pure parts of the service functions.                                    *)

(* Create, Update: time.Parse of the request's date, then the comparison   *)
(* of the two midnights in the local zone.                                 *)
ParseAndCheckExpiry(req) ==
    LET d == ParseDate(req.date)
    IN  IF d = BadDate THEN InvalidDateFormat
        ELSE IF ExpiredLocal(d) THEN ExpiryInPast
        ELSE Ok

(* Create with the date checks moved before the duplicate test *)
CreateCheckFieldsFirst(existing, req) ==
    IF ParseAndCheckExpiry(req) # Ok THEN ParseAndCheckExpiry(req)
    ELSE IF existing # <<>> THEN DuplicateCode
    ELSE Ok

(* Create up to the insert: duplicate lookup result first, then the date.  *)
CreateCheck(existing, req) ==
    IF existing # <<>> THEN DuplicateCode ELSE ParseAndCheckExpiry(req)

(* Update looking the code up whether or not it changes *)
CodeChangedAlways(req, voucher) == TRUE

(* Update: is the code being changed *)
CodeChanged(req, voucher) == req.code # voucher.code

(* Update after the existence check, given the lookup result (empty when   *)
(* the lookup is skipped).                                                 *)
UpdateCheck(existing, req) ==
    IF existing # <<>> THEN DuplicateCode ELSE ParseAndCheckExpiry(req)

(* Delete, Update: the existence check on the row found by id *)
ExistenceCheck(found) == IF found = <<>> THEN NotFound ELSE Ok

(* validateAndConvert *)
validateAndConvert(req) ==
    LET d == ParseDate(req.date)
    IN  IF req.code = <<>> THEN EmptyCode
        ELSE IF Len(req.code) > MaxCodeLen THEN CodeTooLong
        ELSE IF req.discount < MinDiscount \/ req.discount > MaxDiscount
             THEN DiscountOutOfRange
        ELSE IF d = BadDate THEN InvalidDateFormat
        ELSE IF ExpiredTruncated(d) THEN ExpiryInPast
        ELSE Ok

(* The entity built from a request whose date parses *)
ToVoucher(code, discount, day) ==
    [id |-> 0, code |-> code, discount |-> discount, expiry |-> day, createdAt |-> 0]

(* parseCSVRow on one record of the file, against table rs *)
parseCSVRow(rs, record) ==
    IF Len(record) < MinColumns THEN InsufficientColumns
    ELSE LET voucherCode == TrimSpace(record[1])
             discountPercent == ParseFloat(TrimField(record[2]))
             d == ParseDate(TrimField(record[3]))
         IN  IF voucherCode = <<>> THEN EmptyCode
             ELSE IF Len(voucherCode) > MaxCodeLen THEN CodeTooLong
             ELSE IF FindByVoucherCode(rs, voucherCode) # <<>> THEN DuplicateCode
             ELSE IF discountPercent = NotANumber THEN InvalidDiscount
             ELSE IF discountPercent < MinDiscount \/ discountPercent > MaxDiscount
                  THEN DiscountOutOfRange
             ELSE IF d = BadDate THEN InvalidDateFormat
             ELSE IF ExpiredTruncated(d) THEN ExpiryInPast
             ELSE Ok

(* parseCSVRow reaches the code lookup unless it fails before it *)
RowLooksUp(res) == res \notin {InsufficientColumns, EmptyCode, CodeTooLong}

(* The entity parseCSVRow returns for an accepted record *)
RowVoucher(record) ==
    ToVoucher(TrimSpace(record[1]), ParseFloat(TrimField(record[2])),
              ParseDate(TrimField(record[3])))

(* csv.Reader.ReadAll with the default FieldsPerRecord: every record must  *)
(* have as many fields as the first one.                                   *)
ReadAllOk(file) == \A i \in 1..Len(file) : Len(file[i]) = Len(file[1])

(* ImportVouchers: TotalRows, the records after the header record          *)
DataRowsWithHeader(records) == Len(records)

DataRows(records) == Len(records) - 1

(* The emptiness test admitting a file of the header row alone *)
HasNoDataRowsButHeader(records) == Len(records) < 1

(* len(records) < 2: no row at all, or the header row alone *)
HasNoDataRows(records) == Len(records) < 2

(* The bulk insert issued whatever the slice holds *)
NeedsInsertAlways(valid) == TRUE

(* if len(vouchers) > 0: the bulk insert is skipped for an empty slice *)
NeedsInsert(valid) == Len(valid) > 0

(* ImportVouchers: row number of the i-th data row (range index i-1, +2)   *)
RowNumFromOne(i) == i

RowNum(i) == i - 1 + FirstDataRow

----------------------------------------------------------------------------
(* Process state *)

NoReq == [code |-> <<>>, discount |-> 0, date |-> ""]
NoVoucher == ToVoucher(<<>>, 0, 0)
NoImportResult == [TotalRows |-> 0, Success |-> 0, Failed |-> 0, Errors |-> <<>>]
NoBatchResult == [TotalReceived |-> 0, Inserted |-> 0, Duplicates |-> 0,
                  DuplicateCodes |-> <<>>, Errors |-> <<>>]

(* What a list request leaves behind: the page and limit handed to the     *)
(* service, the vouchers and the total it returned, the pages computed     *)
NoQuery == [page |-> <<>>, limit |-> <<>>, search |-> <<>>, sortBy |-> <<>>,
            sortOrder |-> <<>>]

NoList == [query |-> NoQuery, page |-> 0, limit |-> 0, offset |-> 0, search |-> <<>>,
           sortBy |-> "", sortOrder |-> "", vouchers |-> <<>>, total |-> 0,
           totalPages |-> 0]

(* What Login returns: the token (empty on failure) and the user *)
NoLogin == [email |-> "", password |-> "", token |-> <<>>, user |-> <<>>]

Idle == [pc |-> "idle", op |-> "", id |-> 0, req |-> NoReq, voucher |-> NoVoucher,
         calls |-> <<>>, checks |-> <<>>, file |-> <<>>, batch |-> <<>>, i |-> 0,
         valid |-> <<>>, importResult |-> NoImportResult,
         batchResult |-> NoBatchResult, document |-> <<>>,
         list |-> NoList, login |-> NoLogin]

NoCall == [op |-> "", id |-> 0, req |-> NoReq, result |-> "", calls |-> <<>>,
           checks |-> <<>>, file |-> <<>>, batch |-> <<>>,
           importResult |-> NoImportResult, batchResult |-> NoBatchResult,
           document |-> <<>>, list |-> NoList, login |-> NoLogin]

(* What a returning call leaves in `last`.  An error return carries no     *)
(* entity and no report.                                                   *)
Returned(st, result) ==
    [op |-> st.op, id |-> st.id, req |-> st.req, result |-> result,
     calls |-> st.calls, checks |-> st.checks, file |-> st.file, batch |-> st.batch,
     importResult |-> IF result = Report THEN st.importResult ELSE NoImportResult,
     batchResult |-> IF result = Report THEN st.batchResult ELSE NoBatchResult,
     document |-> IF result = Ok THEN st.document ELSE <<>>,
     list |-> st.list, login |-> st.login]

(* One entry of the log of repository calls a service call has made:       *)
(* hit = a row was found / the write succeeded; n = records handed over;   *)
(* failed = the call returned an error (other than record-not-found).      *)
Call(fn, hit, n) == [fn |-> fn, hit |-> hit, n |-> n, failed |-> FALSE]

(* A write call: it fails when the table refuses the statement *)
Wrote(fn, ok, n) == [fn |-> fn, hit |-> ok, n |-> n, failed |-> ~ok]

(* A call the database did not answer *)
Unanswered(fn, n) == [fn |-> fn, hit |-> FALSE, n |-> n, failed |-> TRUE]

(* One entry of the log of expiry comparisons a service call has made:     *)
(* the parsed day, the instant of the comparison, and its verdict.         *)
Checked(res, day) ==
    IF res \in {Ok, ExpiryInPast} THEN <<[day |-> day, at |-> now, passed |-> res = Ok]>>
    ELSE <<>>

(* No request is in the handler chain *)
NoRequest == [stage |-> "none", route |-> "", header |-> <<>>, status |-> 0,
              email |-> "", ran |-> FALSE]

Procs == 1..NumProcs

Return(p, st, result) ==
    /\ proc' = [proc EXCEPT ![p] = Idle]
    /\ last' = Returned(st, result)

Continue(p, st) ==
    /\ proc' = [proc EXCEPT ![p] = st]
    /\ UNCHANGED last

(* A repository call that returns the driver's error ends the call with it *)
Abort(p, st, fn, n) ==
    Return(p, [st EXCEPT !.calls = @ \o <<Unanswered(fn, n)>>], PersistenceError)

----------------------------------------------------------------------------
(* voucherServiceImpl.Create *)

(* FindByVoucherCode, the date checks, and the entity *)
CreateCall(p, req) ==
    /\ last = NoCall
    /\ proc[p].pc = "idle"
    /\ LET existing == FindByVoucherCode(rows, req.code)
           res == CreateCheck(existing, req)
           st0 == [Idle EXCEPT !.op = "Create", !.req = req]
           st == [st0 EXCEPT
                     !.calls = <<Call("FindByVoucherCode", existing # <<>>, 0)>>,
                     !.checks = Checked(res, ParseDate(req.date))]
       IN  IF ~dbUp THEN Abort(p, st0, "FindByVoucherCode", 0)
           ELSE IF res = Ok
           THEN Continue(p, [st EXCEPT !.pc = "Create.insert",
                    !.voucher = ToVoucher(req.code, req.discount, ParseDate(req.date))])
           ELSE Return(p, st, res)
    /\ UNCHANGED <<rows, nextId, now, tz, dbUp, http>>

(* voucherRepo.Create *)
CreateInsert(p) ==
    /\ last = NoCall
    /\ proc[p].pc = "Create.insert"
    /\ LET out == IF dbUp THEN RepoCreate(rows, nextId, proc[p].voucher)
                  ELSE <<FALSE, rows>>
           st == [proc[p] EXCEPT !.calls = @ \o <<Wrote("Create", out[1], 1)>>]
       IN  /\ rows' = out[2]
           /\ nextId' = IF out[1] THEN nextId + 1 ELSE nextId
           /\ Return(p, st, IF out[1] THEN Ok ELSE PersistenceError)
    /\ UNCHANGED <<now, tz, dbUp, http>>

----------------------------------------------------------------------------
(* voucherServiceImpl.Update *)

(* After the existence check (and the lookup, when made): validate, then   *)
(* overwrite the three fields of the entity read by FindByID.              *)
UpdateValidate(p, st, existing) ==
    LET res == UpdateCheck(existing, st.req)
        st2 == [st EXCEPT !.checks = Checked(res, ParseDate(st.req.date))]
    IN  IF res = Ok
        THEN Continue(p, [st2 EXCEPT !.pc = "Update.save",
                 !.voucher = [@ EXCEPT !.code = st.req.code,
                                       !.discount = st.req.discount,
                                       !.expiry = ParseDate(st.req.date)]])
        ELSE Return(p, st2, res)

(* FindByID; with the code unchanged the call goes on to validation        *)
UpdateCall(p, id, req) ==
    /\ last = NoCall
    /\ proc[p].pc = "idle"
    /\ LET found == FindByID(rows, id)
           st0 == [Idle EXCEPT !.op = "Update", !.id = id, !.req = req]
           st == [st0 EXCEPT !.calls = <<Call("FindByID", found # <<>>, 0)>>]
       IN  IF ~dbUp THEN Abort(p, st0, "FindByID", 0)
           ELSE IF ExistenceCheck(found) = NotFound THEN Return(p, st, NotFound)
           ELSE LET v == found[1]
                    st1 == [st EXCEPT !.voucher = [id |-> v.id, code |-> v.code,
                                discount |-> v.discount, expiry |-> v.expiry,
                                createdAt |-> v.createdAt]]
                IN  IF CodeChanged(req, st1.voucher)
                    THEN Continue(p, [st1 EXCEPT !.pc = "Update.lookup"])
                    ELSE UpdateValidate(p, st1, <<>>)
    /\ UNCHANGED <<rows, nextId, now, tz, dbUp, http>>

(* FindByVoucherCode for a changed code *)
UpdateLookup(p) ==
    /\ last = NoCall
    /\ proc[p].pc = "Update.lookup"
    /\ LET existing == FindByVoucherCode(rows, proc[p].req.code)
           st == [proc[p] EXCEPT
                     !.calls = @ \o <<Call("FindByVoucherCode", existing # <<>>, 0)>>]
       IN  IF ~dbUp THEN Abort(p, proc[p], "FindByVoucherCode", 0)
           ELSE UpdateValidate(p, st, existing)
    /\ UNCHANGED <<rows, nextId, now, tz, dbUp, http>>

(* voucherRepo.Update *)
UpdateSave(p) ==
    /\ last = NoCall
    /\ proc[p].pc = "Update.save"
    /\ LET out == IF dbUp THEN RepoUpdate(rows, proc[p].voucher) ELSE <<FALSE, rows>>
           st == [proc[p] EXCEPT !.calls = @ \o <<Wrote("Update", out[1], 1)>>]
       IN  /\ rows' = out[2]
           /\ Return(p, st, IF out[1] THEN Ok ELSE PersistenceError)
    /\ UNCHANGED <<nextId, now, tz, dbUp, http>>

----------------------------------------------------------------------------
(* voucherServiceImpl.Delete *)

(* Delete without the existence check *)
DeleteCallUnchecked(p, id) ==
    /\ last = NoCall
    /\ proc[p].pc = "idle"
    /\ LET found == FindByID(rows, id)
           st == [Idle EXCEPT !.op = "Delete", !.id = id,
                     !.calls = <<Call("FindByID", found # <<>>, 0)>>]
       IN  Continue(p, [st EXCEPT !.pc = "Delete.delete"])
    /\ UNCHANGED <<rows, nextId, now, tz, dbUp, http>>

(* FindByID *)
DeleteCall(p, id) ==
    /\ last = NoCall
    /\ proc[p].pc = "idle"
    /\ LET found == FindByID(rows, id)
           st0 == [Idle EXCEPT !.op = "Delete", !.id = id]
           st == [st0 EXCEPT !.calls = <<Call("FindByID", found # <<>>, 0)>>]
       IN  IF ~dbUp THEN Abort(p, st0, "FindByID", 0)
           ELSE IF ExistenceCheck(found) = NotFound THEN Return(p, st, NotFound)
           ELSE Continue(p, [st EXCEPT !.pc = "Delete.delete"])
    /\ UNCHANGED <<rows, nextId, now, tz, dbUp, http>>

(* voucherRepo.Delete; its error is the call's result *)
DeleteSoft(p) ==
    /\ last = NoCall
    /\ proc[p].pc = "Delete.delete"
    /\ LET st == [proc[p] EXCEPT !.calls = @ \o <<Wrote("Delete", dbUp, 0)>>]
       IN  /\ rows' = IF dbUp THEN RepoDelete(rows, proc[p].id) ELSE rows
           /\ Return(p, st, IF dbUp THEN Ok ELSE PersistenceError)
    /\ UNCHANGED <<nextId, now, tz, dbUp, http>>

----------------------------------------------------------------------------
(* voucherServiceImpl.ImportVouchers *)

(* csv ReadAll of the whole file, the emptiness test, the empty result;    *)
(* with no record after the header the loop body never runs                *)
ImportVouchersCall(p, file) ==
    /\ last = NoCall
    /\ proc[p].pc = "idle"
    /\ LET st == [Idle EXCEPT !.op = "ImportVouchers", !.file = file]
           st1 == [st EXCEPT !.importResult =
                      [NoImportResult EXCEPT !.TotalRows = DataRows(file)]]
       IN  IF ~ReadAllOk(file) THEN Return(p, st, MalformedInput)
           ELSE IF HasNoDataRows(file) THEN Return(p, st, EmptyImport)
           ELSE IF Len(file) > 1
           THEN Continue(p, [st1 EXCEPT !.pc = "Import.row", !.i = 1])
           ELSE IF NeedsInsert(st1.valid)
           THEN Continue(p, [st1 EXCEPT !.pc = "Import.insert"])
           ELSE Return(p, st1, Report)
    /\ UNCHANGED <<rows, nextId, now, tz, dbUp, http>>

(* The row step with a code counted as a duplicate once an earlier row of  *)
(* the file has it                                                         *)
ImportRowOncePerCode(p) ==
    /\ last = NoCall
    /\ proc[p].pc = "Import.row"
    /\ LET st == proc[p]
           record == st.file[st.i + 1]
           seen == Len(record) >= MinColumns
                      /\ \E k \in 1..Len(st.valid) : st.valid[k].code = TrimSpace(record[1])
           parsed == IF seen THEN DuplicateCode ELSE parseCSVRow(rows, record)
           res == IF RowLooksUp(parsed) /\ ~dbUp THEN LookupFailed ELSE parsed
           day == IF Len(record) < MinColumns THEN BadDate
                  ELSE ParseDate(TrimField(record[3]))
           st1 == [st EXCEPT
                     !.calls = IF res = LookupFailed
                               THEN @ \o <<Unanswered("FindByVoucherCode", 0)>>
                               ELSE IF RowLooksUp(res)
                               THEN @ \o <<Call("FindByVoucherCode", res = DuplicateCode, 0)>>
                               ELSE @,
                     !.checks = @ \o Checked(res, day)]
           st2 == IF res = Ok
                  THEN [st1 EXCEPT !.valid = @ \o <<RowVoucher(record)>>]
                  ELSE [st1 EXCEPT
                          !.importResult.Errors =
                              @ \o <<[Row |-> RowNum(st.i), Error |-> res]>>,
                          !.importResult.Failed = @ + 1]
       IN  IF st.i + 1 < Len(st.file)
           THEN Continue(p, [st2 EXCEPT !.i = @ + 1])
           ELSE IF NeedsInsert(st2.valid)
           THEN Continue(p, [st2 EXCEPT !.pc = "Import.insert"])
           ELSE Return(p, st2, Report)
    /\ UNCHANGED <<rows, nextId, now, tz, dbUp, http>>

(* One pass of the loop over records[1:]: parseCSVRow (with its lookup)    *)
(* on data row i; an error of the lookup is the row's error; after the     *)
(* last row, return at once when nothing is valid                          *)
ImportRow(p) ==
    /\ last = NoCall
    /\ proc[p].pc = "Import.row"
    /\ LET st == proc[p]
           record == st.file[st.i + 1]
           parsed == parseCSVRow(rows, record)
           res == IF RowLooksUp(parsed) /\ ~dbUp THEN LookupFailed ELSE parsed
           day == IF Len(record) < MinColumns THEN BadDate
                  ELSE ParseDate(TrimField(record[3]))
           st1 == [st EXCEPT
                     !.calls = IF res = LookupFailed
                               THEN @ \o <<Unanswered("FindByVoucherCode", 0)>>
                               ELSE IF RowLooksUp(res)
                               THEN @ \o <<Call("FindByVoucherCode", res = DuplicateCode, 0)>>
                               ELSE @,
                     !.checks = @ \o Checked(res, day)]
           st2 == IF res = Ok
                  THEN [st1 EXCEPT !.valid = @ \o <<RowVoucher(record)>>]
                  ELSE [st1 EXCEPT
                          !.importResult.Errors =
                              @ \o <<[Row |-> RowNum(st.i), Error |-> res]>>,
                          !.importResult.Failed = @ + 1]
       IN  IF st.i + 1 < Len(st.file)
           THEN Continue(p, [st2 EXCEPT !.i = @ + 1])
           ELSE IF NeedsInsert(st2.valid)
           THEN Continue(p, [st2 EXCEPT !.pc = "Import.insert"])
           ELSE Return(p, st2, Report)
    /\ UNCHANGED <<rows, nextId, now, tz, dbUp, http>>

(* voucherRepo.BulkCreate of the accepted rows *)
ImportInsert(p) ==
    /\ last = NoCall
    /\ proc[p].pc = "Import.insert"
    /\ LET st == proc[p]
           out == IF dbUp THEN BulkCreate(rows, nextId, st.valid) ELSE <<FALSE, rows>>
           st1 == [st EXCEPT
                     !.calls = @ \o <<Wrote("BulkCreate", out[1], Len(st.valid))>>,
                     !.importResult.Success = IF out[1] THEN Len(st.valid) ELSE @]
       IN  /\ rows' = out[2]
           /\ nextId' = IF out[1] THEN nextId + Len(st.valid) ELSE nextId
           /\ Return(p, st1, IF out[1] THEN Report ELSE PersistenceError)
    /\ UNCHANGED <<now, tz, dbUp, http>>

----------------------------------------------------------------------------
(* voucherServiceImpl.ImportBatch *)

(* Step 4, the loop over the candidates from index i on, threading the     *)
(* result, the valid entities and the log of expiry comparisons.           *)
RECURSIVE FilterValid(_, _, _, _)
FilterValid(batch, i, duplicateMap, acc) ==
    IF i > Len(batch) THEN acc
    ELSE LET voucherReq == batch[i]
             res == validateAndConvert(voucherReq)
         IN  IF voucherReq.code \in duplicateMap
             THEN FilterValid(batch, i + 1, duplicateMap,
                     [acc EXCEPT !.batchResult.Duplicates = @ + 1,
                                 !.batchResult.DuplicateCodes = @ \o <<voucherReq.code>>])
             ELSE IF res # Ok
             THEN FilterValid(batch, i + 1, duplicateMap,
                     [acc EXCEPT !.batchResult.Errors =
                                     @ \o <<[Code |-> voucherReq.code, Error |-> res]>>,
                                 !.checks = @ \o Checked(res, ParseDate(voucherReq.date))])
             ELSE FilterValid(batch, i + 1, duplicateMap,
                     [acc EXCEPT !.valid = @ \o <<ToVoucher(voucherReq.code,
                                     voucherReq.discount, ParseDate(voucherReq.date))>>,
                                 !.checks = @ \o Checked(res, ParseDate(voucherReq.date))])

(* The batch given up as soon as one candidate is a duplicate or invalid *)
ImportBatchCallAllOrNothing(p, batch) ==
    /\ last = NoCall
    /\ proc[p].pc = "idle"
    /\ LET voucherCodes == [i \in 1..Len(batch) |-> batch[i].code]
           existingCodes == CheckDuplicateCodes(rows, voucherCodes)
           st0 == [Idle EXCEPT !.op = "ImportBatch", !.batch = batch]
           st == [st0 EXCEPT
                     !.calls = <<Call("CheckDuplicateCodes", existingCodes # <<>>,
                                      Len(voucherCodes))>>,
                     !.batchResult = [NoBatchResult EXCEPT !.TotalReceived = Len(batch)]]
           st1 == FilterValid(batch, 1, Seq2Set(existingCodes), st)
       IN  IF ~dbUp THEN Abort(p, st0, "CheckDuplicateCodes", Len(voucherCodes))
           ELSE IF Len(st1.valid) < Len(batch)
           THEN Return(p, st1, IF st1.batchResult.Duplicates > 0 THEN DuplicateCode
                               ELSE st1.batchResult.Errors[1].Error)
           ELSE IF NeedsInsert(st1.valid)
           THEN Continue(p, [st1 EXCEPT !.pc = "Batch.insert"])
           ELSE Return(p, st1, Report)
    /\ UNCHANGED <<rows, nextId, now, tz, dbUp, http>>

(* Steps 1 to 4: the codes, CheckDuplicateCodes, the map, the loop; return *)
(* at once when nothing is valid                                           *)
ImportBatchCall(p, batch) ==
    /\ last = NoCall
    /\ proc[p].pc = "idle"
    /\ LET voucherCodes == [i \in 1..Len(batch) |-> batch[i].code]
           existingCodes == CheckDuplicateCodes(rows, voucherCodes)
           st0 == [Idle EXCEPT !.op = "ImportBatch", !.batch = batch]
           st == [st0 EXCEPT
                     !.calls = <<Call("CheckDuplicateCodes", existingCodes # <<>>,
                                      Len(voucherCodes))>>,
                     !.batchResult = [NoBatchResult EXCEPT !.TotalReceived = Len(batch)]]
           st1 == FilterValid(batch, 1, Seq2Set(existingCodes), st)
       IN  IF ~dbUp THEN Abort(p, st0, "CheckDuplicateCodes", Len(voucherCodes))
           ELSE IF NeedsInsert(st1.valid)
           THEN Continue(p, [st1 EXCEPT !.pc = "Batch.insert"])
           ELSE Return(p, st1, Report)
    /\ UNCHANGED <<rows, nextId, now, tz, dbUp, http>>

(* The bulk insert written to skip the records whose code is taken         *)
(* (ON CONFLICT DO NOTHING) and to report the rest as inserted             *)
ImportBatchInsertSkipTaken(p) ==
    /\ last = NoCall
    /\ proc[p].pc = "Batch.insert"
    /\ LET st == proc[p]
           Free(v) == ~CodeTaken(rows, v.code, Nobody)
           free == SelectSeq(st.valid, Free)
           out == IF dbUp THEN BulkCreate(rows, nextId, free) ELSE <<FALSE, rows>>
           st1 == [st EXCEPT
                     !.calls = @ \o <<Wrote("BulkCreate", out[1], Len(st.valid))>>,
                     !.batchResult.Inserted = IF out[1] THEN Len(free) ELSE @]
       IN  /\ rows' = out[2]
           /\ nextId' = IF out[1] THEN nextId + Len(free) ELSE nextId
           /\ Return(p, st1, IF out[1] THEN Report ELSE PersistenceError)
    /\ UNCHANGED <<now, tz, dbUp, http>>

(* voucherRepo.BulkCreate of the valid candidates *)
ImportBatchInsert(p) ==
    /\ last = NoCall
    /\ proc[p].pc = "Batch.insert"
    /\ LET st == proc[p]
           out == IF dbUp THEN BulkCreate(rows, nextId, st.valid) ELSE <<FALSE, rows>>
           st1 == [st EXCEPT
                     !.calls = @ \o <<Wrote("BulkCreate", out[1], Len(st.valid))>>,
                     !.batchResult.Inserted = IF out[1] THEN Len(st.valid) ELSE @]
       IN  /\ rows' = out[2]
           /\ nextId' = IF out[1] THEN nextId + Len(st.valid) ELSE nextId
           /\ Return(p, st1, IF out[1] THEN Report ELSE PersistenceError)
    /\ UNCHANGED <<now, tz, dbUp, http>>

----------------------------------------------------------------------------
(* voucherServiceImpl.ExportVouchers *)

ExportHeader == <<"voucher_code", "discount_percent", "expiry_date">>

(* The record written for one voucher *)
ExportRecord(voucher) ==
    <<voucher.code, FormatDiscount(voucher.discount), FormatDate(voucher.expiry)>>

(* The documents an export of table rs may return: for each result of     *)
(* FindAll(1, 100000, "", "created_at", "asc"), the header and one record  *)
(* per voucher returned                                                    *)
ExportDocuments(rs) ==
    {<<ExportHeader>> \o [i \in 1..Len(found[1]) |-> ExportRecord(found[1][i])] :
        found \in FindAll(rs, 1, ExportLimit, <<>>, "created_at", "asc")}

(* The record of an export made right after a CSV import has returned its *)
(* report keeps the file and the report of that import beside the document *)
AfterImport(call, previous) ==
    IF previous.op = "ImportVouchers" /\ previous.result = Report
    THEN [call EXCEPT !.file = previous.file, !.importResult = previous.importResult]
    ELSE call

(* The export of the table.  An export may directly follow an import or   *)
(* another export, whose record it then replaces.                          *)
ExportVouchers(p) ==
    /\ last = NoCall \/ last.op \in {"ImportVouchers", "ExportVouchers"}
    /\ proc[p].pc = "idle"
    /\ LET st == [Idle EXCEPT !.op = "ExportVouchers"]
       IN  IF ~dbUp THEN Abort(p, st, "FindAll", 0)
           ELSE \E document \in ExportDocuments(rows) :
                  LET done == [st EXCEPT
                          !.calls = <<Call("FindAll", Len(document) > 1, 0)>>,
                          !.document = document]
                  IN  /\ proc' = [proc EXCEPT ![p] = Idle]
                      /\ last' = AfterImport(Returned(done, Ok), last)
    /\ UNCHANGED <<rows, nextId, now, tz, dbUp, http>>

(* The database stops answering, or answers again *)
Outage ==
    /\ last = NoCall
    /\ dbUp' = ~dbUp
    /\ UNCHANGED <<rows, nextId, now, tz, proc, last, http>>

----------------------------------------------------------------------------
(* The list request.  A query parameter is the sequence of the values the  *)
(* URL gives it: none when the key is absent.  A value is the sequence of  *)
(* its characters, except the sort column and direction, which are words.  *)

(* c.DefaultQuery(key, defaultValue) *)
DefaultQuery(values, defaultValue) ==
    IF values = <<>> THEN defaultValue ELSE values[1]

IsDigit(ch) == \E d \in 1..Len(Digits) : Digits[d] = ch

DigitValue(ch) == (CHOOSE d \in 1..Len(Digits) : Digits[d] = ch) - 1

RECURSIVE DigitsValue(_)
DigitsValue(text) ==
    IF text = <<>> THEN 0
    ELSE DigitsValue(SubSeq(text, 1, Len(text) - 1)) * Len(Digits)
            + DigitValue(text[Len(text)])

(* strconv.Atoi with its error dropped: the number of an optionally signed *)
(* run of digits, 0 for any other text                                     *)
Atoi(text) ==
    LET signed == text # <<>> /\ text[1] \in {"+", "-"}
        body == IF signed THEN Tail(text) ELSE text
    IN  IF body = <<>> \/ \E i \in 1..Len(body) : ~IsDigit(body[i]) THEN 0
        ELSE IF signed /\ text[1] = "-" THEN 0 - DigitsValue(body)
        ELSE DigitsValue(body)

DefaultPageText == <<"1">>
DefaultLimitText == <<"1", "0">>

Panic == "runtime error: integer divide by zero"

(* Go's / on integers truncates toward zero; a is never negative here *)
GoDiv(a, b) == IF b > 0 THEN a \div b ELSE 0 - (a \div (0 - b))

GoMod(a, b) == a - b * GoDiv(a, b)

(* totalPages of BuildVoucherListResponse, for a limit other than zero *)
TotalPages(total, limit) ==
    IF GoMod(total, limit) > 0 THEN GoDiv(total, limit) + 1 ELSE GoDiv(total, limit)

(* VoucherHandler.GetAll: page and limit are what Atoi makes of the query  *)
(* values; the service hands them to FindAll; the response is built from   *)
(* the page, and building it panics when the limit is zero.                *)
GetAll(p, query) ==
    /\ last = NoCall
    /\ proc[p].pc = "idle"
    /\ LET page == Atoi(DefaultQuery(query.page, DefaultPageText))
           limit == Atoi(DefaultQuery(query.limit, DefaultLimitText))
           search == DefaultQuery(query.search, <<>>)
           sortBy == DefaultQuery(query.sortBy, "created_at")
           sortOrder == DefaultQuery(query.sortOrder, "desc")
           st0 == [Idle EXCEPT !.op = "GetAll",
                               !.list = [NoList EXCEPT !.query = query, !.page = page,
                                            !.limit = limit,
                                            !.offset = (page - 1) * limit,
                                            !.search = search, !.sortBy = sortBy,
                                            !.sortOrder = sortOrder]]
       IN  IF ~dbUp THEN Abort(p, st0, "FindAll", 0)
           ELSE \E found \in FindAll(rows, page, limit, search, sortBy, sortOrder) :
                   LET st == [st0 EXCEPT !.calls = <<Call("FindAll", TRUE, 0)>>,
                                         !.list.vouchers = found[1],
                                         !.list.total = found[2]]
                   IN  IF limit = 0 THEN Return(p, st, Panic)
                       ELSE Return(p, [st EXCEPT !.list.totalPages =
                                                    TotalPages(found[2], limit)], Ok)
    /\ UNCHANGED <<rows, nextId, now, tz, dbUp, http>>

----------------------------------------------------------------------------
(* The JWT service and the authentication middleware.  A header is the     *)
(* sequence of its characters, except that a token is one element: the     *)
(* name of a compact JWT whose content Decode gives.                       *)

SecretKey == "secret"
NoExpiry == -1
HMACMethods == {"HS256", "HS384", "HS512"}

(* The decoded header and claims of the tokens, and the key each was       *)
(* signed with; other text is not a JWT                                    *)
Decode(token) ==
    CASE token = "t.alice" ->
            <<[alg |-> "HS256", key |-> SecretKey, email |-> "alice", exp |-> 30]>>
      [] token = "t.bob" ->
            <<[alg |-> "HS512", key |-> SecretKey, email |-> "bob", exp |-> 72]>>
      [] token = "t.noexp" ->
            <<[alg |-> "HS256", key |-> SecretKey, email |-> "carol", exp |-> NoExpiry]>>
      [] token = "t.forged" ->
            <<[alg |-> "HS256", key |-> "guess", email |-> "alice", exp |-> 72]>>
      [] token = "t.none" ->
            <<[alg |-> "none", key |-> "", email |-> "alice", exp |-> 72]>>
      [] token = "t.rs256" ->
            <<[alg |-> "RS256", key |-> SecretKey, email |-> "alice", exp |-> 72]>>
      [] OTHER -> <<>>

(* The token check without the signature *)
ValidateTokenUnsigned(tokenString, at) ==
    IF Len(tokenString) # 1 THEN <<>>
    ELSE LET parsed == Decode(tokenString[1])
         IN  IF parsed = <<>> THEN <<>>
             ELSE IF parsed[1].exp # NoExpiry /\ at >= parsed[1].exp THEN <<>>
             ELSE <<[email |-> parsed[1].email]>>

(* jwtService.ValidateToken at instant `at`: the claims, as a sequence of  *)
(* one element, or none (an error): the text must parse as a JWT, its      *)
(* method must be an HMAC one, its signature must be made with the         *)
(* service's key, and its expiry, when it has one, must lie ahead.         *)
ValidateToken(tokenString, at) ==
    IF Len(tokenString) # 1 THEN <<>>
    ELSE LET parsed == Decode(tokenString[1])
         IN  IF parsed = <<>> THEN <<>>
             ELSE IF parsed[1].alg \notin HMACMethods THEN <<>>
             ELSE IF parsed[1].key # SecretKey THEN <<>>
             ELSE IF parsed[1].exp # NoExpiry /\ at >= parsed[1].exp THEN <<>>
             ELSE <<[email |-> parsed[1].email]>>

(* The lifetime of a generated token, in hours *)
Expiration == 24

TokenError == "token signing failed"

(* jwtService.GenerateToken at instant `at`: the signed token, or none     *)
(* when signing returns an error                                           *)
GenerateToken(email, at, signs) ==
    IF signs
    THEN <<[alg |-> "HS256", key |-> SecretKey, email |-> email, exp |-> at + Expiration]>>
    ELSE <<>>

(* Login that looks the user up first, as a credential check would *)
LoginChecked(p, email, password, signs) ==
    /\ last = NoCall
    /\ proc[p].pc = "idle"
    /\ LET known == email = "alice"
           token == GenerateToken(email, now, signs)
           lookup == Call("FindByEmail", known, 1)
           signing == IF signs THEN Call("GenerateToken", TRUE, 1)
                      ELSE Unanswered("GenerateToken", 1)
           st == [Idle EXCEPT !.op = "Login",
                              !.login = [email |-> email, password |-> password,
                                         token |-> IF known THEN token ELSE <<>>,
                                         user |-> IF known /\ signs
                                                  THEN <<[email |-> email]>> ELSE <<>>],
                              !.calls = IF known THEN <<lookup, signing>> ELSE <<lookup>>]
       IN  Return(p, st, IF ~known THEN NotFound ELSE IF signs THEN Ok ELSE TokenError)
    /\ UNCHANGED <<rows, nextId, now, tz, dbUp, http>>

(* authServiceImpl.Login: a user entity with the email, and a token for    *)
(* it; the password is not read and the user repository is not called.    *)
Login(p, email, password, signs) ==
    /\ last = NoCall
    /\ proc[p].pc = "idle"
    /\ LET user == <<[email |-> email]>>
           token == GenerateToken(email, now, signs)
           signing == IF signs THEN Call("GenerateToken", TRUE, 1)
                      ELSE Unanswered("GenerateToken", 1)
           st == [Idle EXCEPT !.op = "Login",
                              !.login = [email |-> email, password |-> password,
                                         token |-> token,
                                         user |-> IF token = <<>> THEN <<>> ELSE user],
                              !.calls = <<signing>>]
       IN  Return(p, st, IF token = <<>> THEN TokenError ELSE Ok)
    /\ UNCHANGED <<rows, nextId, now, tz, dbUp, http>>

BearerPrefix == <<"B", "e", "a", "r", "e", "r", " ">>

(* strings.TrimPrefix *)
TrimPrefix(text, prefix) ==
    IF Len(text) >= Len(prefix) /\ SubSeq(text, 1, Len(prefix)) = prefix
    THEN SubSeq(text, Len(prefix) + 1, Len(text))
    ELSE text

StatusUnauthorized == 401

(* A request for a route of the protected group enters the chain *)
Receive(route, header) ==
    /\ http = NoRequest
    /\ http' = [NoRequest EXCEPT !.stage = "middleware", !.route = route,
                                 !.header = header]
    /\ UNCHANGED <<rows, nextId, now, tz, proc, last, dbUp>>

(* AuthMiddleware: 401 and Abort for a missing header, a header without    *)
(* the prefix, or a token the JWT service refuses; otherwise the email of  *)
(* the claims is set and the chain goes on (c.Next())                      *)
AuthMiddleware ==
    /\ http.stage = "middleware"
    /\ LET authHeader == http.header
           tokenString == TrimPrefix(authHeader, BearerPrefix)
           claims == ValidateToken(tokenString, now)
           abort == [http EXCEPT !.stage = "done", !.status = StatusUnauthorized]
       IN  http' = IF authHeader = <<>> THEN abort
                   ELSE IF tokenString = authHeader THEN abort
                   ELSE IF claims = <<>> THEN abort
                   ELSE [http EXCEPT !.stage = "handler", !.email = claims[1].email]
    /\ UNCHANGED <<rows, nextId, now, tz, proc, last, dbUp>>

(* The handler of the route runs and writes its own status *)
Handler(status) ==
    /\ http.stage = "handler"
    /\ http' = [http EXCEPT !.stage = "done", !.ran = TRUE, !.status = status]
    /\ UNCHANGED <<rows, nextId, now, tz, proc, last, dbUp>>

(* The response is sent *)
Finish ==
    /\ http.stage = "done"
    /\ http' = NoRequest
    /\ UNCHANGED <<rows, nextId, now, tz, proc, last, dbUp>>

----------------------------------------------------------------------------
(* The clock.  The instants are picked around the day boundaries: at 02:00 *)
(* UTC of day 1 a zone west of Greenwich is still in day 0, at 20:00 UTC a *)
(* zone east of it is already in day 2.                                    *)
ClockValues == {26, 44}
TimeZones == {-8, 7}

Tick ==
    /\ last = NoCall
    /\ \E t \in ClockValues :
          /\ t > now
          /\ \A u \in ClockValues : u > now => t <= u
          /\ now' = t
    /\ UNCHANGED <<rows, nextId, tz, proc, last, dbUp, http>>

----------------------------------------------------------------------------
(* Inputs *)

Req(code, discount, date) == [code |-> code, discount |-> discount, date |-> date]

Today == "1970-01-02"
Yesterday == "1970-01-01"
Tomorrow == "1970-01-03"

Header == <<"voucher_code", "discount_percent", "expiry_date">>
ShortHeader == <<"voucher_code">>

(* All sequences over S of length at most n *)
RECURSIVE SeqsUpTo(_, _)
SeqsUpTo(S, n) ==
    IF n = 0 THEN {<<>>}
    ELSE LET shorter == SeqsUpTo(S, n - 1)
         IN  shorter \cup {Append(q, x) : q \in shorter, x \in S}

(* Ids of requests: the table never holds more rows than there are codes *)
Ids == {1, 2, 3}

(* Requests of the concurrent specification: well-formed ones *)
PlainReqs == {Req(cA, 50, Tomorrow), Req(cB, 10, Tomorrow)}
PlainFiles == {<<Header, <<cB, "10", Tomorrow>>, <<cPadA, " 50 ", Tomorrow>>>>}
PlainBatches == {<<Req(cA, 50, Tomorrow), Req(cB, 10, Tomorrow)>>}

(* Requests of the single-record specification *)
SingleReqs ==
    {Req(cA, 50, Tomorrow), Req(cB, 1, Today), Req(cB, 100, Yesterday),
     Req(cA, 101, Tomorrow), Req(cB, 0, Today), Req(cA, 50, "invalid-date"),
     Req(cB, 101, "1970-1-3"), Req(cA, 0, Yesterday),
     Req(cLong, 50, Tomorrow)}

SingleBatches == {<<Req(cA, 101, Tomorrow), Req(cB, 10, Tomorrow)>>}

(* Files and batches of the import specification *)
CsvRows ==
    {<<cPadA, " 50 ", " 1970-01-03">>, <<cB, "10.00", Today>>, <<cB, "100", Yesterday>>,
     <<cBlank, "10", Tomorrow>>, <<cB, "abc", Tomorrow>>, <<cA, "200", Tomorrow>>,
     <<cB, "10", "03/01/1970">>}
ShortRows == {<<cA>>, <<cB>>}

CsvFiles ==
    {<<>>} \cup {<<Header>> \o body : body \in SeqsUpTo(CsvRows, MaxCsvRows)}
           \cup {<<ShortHeader>> \o body : body \in SeqsUpTo(ShortRows, MaxCsvRows)}
           \cup {<<Header, <<cB, "10.00", Today>>, r>> : r \in ShortRows}

BatchReqs ==
    {Req(cA, 50, Tomorrow), Req(cB, 10, Today), Req(cB, 1, Yesterday),
     Req(cA, 101, Tomorrow), Req(cEmpty, 0, "invalid-date")}

Batches == SeqsUpTo(BatchReqs, MaxBatch)

(* Files of the specification with outages: two distinct codes, and the    *)
(* same code twice                                                         *)
FaultyFiles ==
    PlainFiles \cup {<<Header, <<cB, "10", Tomorrow>>, <<cB, "10", Tomorrow>>>>}

(* The routes of the protected group *)
ProtectedRoutes ==
    {"GET /vouchers", "GET /vouchers/:id", "POST /vouchers", "PUT /vouchers/:id",
     "DELETE /vouchers/:id", "POST /vouchers/upload-csv", "POST /vouchers/upload-batch",
     "GET /vouchers/export"}

(* Authorization headers: absent, the prefix alone, the prefix with each   *)
(* token or other text, a token without the prefix, other schemes, the     *)
(* prefix in lower case, twice, or followed by a second space              *)
Tokens == {"t.alice", "t.bob", "t.noexp", "t.forged", "t.none", "t.rs256", "garbage"}

Headers ==
    {<<>>, BearerPrefix}
        \cup {BearerPrefix \o <<t>> : t \in Tokens}
        \cup {<<"t.bob">>, <<"B", "a", "s", "i", "c", " ", "t.bob">>,
              <<"b", "e", "a", "r", "e", "r", " ", "t.bob">>,
              BearerPrefix \o BearerPrefix \o <<"t.bob">>,
              BearerPrefix \o <<" ", "t.bob">>}

HandlerStatuses == {200, 400, 404, 500}

(* Requests that fill the table the list requests read: two discounts are *)
(* equal and all expiry dates are equal                                    *)
cAb == <<"a", "B">>

ListReqs == {Req(cAb, 10, Tomorrow), Req(cA, 10, Tomorrow), Req(cB, 50, Tomorrow)}

Values(texts) == {<<t>> : t \in texts}

(* Page and limit values a well-formed request has, and others: zero,      *)
(* negative, not a number, empty                                           *)
PlainPages == {<<>>} \cup Values({<<"1">>, <<"2">>, <<"3">>, <<"4">>})
PlainLimits == {<<>>} \cup Values({<<"1">>, <<"2">>})
OddNumbers == Values({<<"0">>, <<"-", "1">>, <<"a", "b", "c">>, <<>>})
Searches == {<<>>} \cup Values({<<"a">>, <<"B">>, <<"z">>})
Sorts == {<<<<>>, <<>>>>, <<<<"created_at">>, <<"asc">>>>,
          <<<<"discount_percent">>, <<"asc">>>>, <<<<"discount_percent">>, <<>>>>,
          <<<<"expiry_date">>, <<"desc">>>>}

Queries ==
    {[page |-> page, limit |-> limit, search |-> search, sortBy |-> sort[1],
      sortOrder |-> sort[2]] :
        page \in PlainPages, limit \in PlainLimits, search \in Searches, sort \in Sorts}
    \cup {[NoQuery EXCEPT !.page = page, !.limit = limit] :
             page \in PlainPages \cup OddNumbers, limit \in PlainLimits \cup OddNumbers}

(* Credentials: empty, of a registered user, of nobody *)
Emails == {"", "alice", "nobody"}
Passwords == {"", "pw", "wrong"}

(* A table of one voucher more than one export query asks for, as that    *)
(* many Create calls leave it                                              *)
BigTable ==
    [i \in 1..(ExportLimit + 1) |->
        NewRow(i, ToVoucher(<<IntToStr(i)>>, 10, 2), i)]

----------------------------------------------------------------------------
(* Specifications *)

Init ==
    /\ rows = <<>>
    /\ nextId = 1
    /\ now \in {t \in ClockValues : \A u \in ClockValues : t <= u}
    /\ tz \in TimeZones
    /\ proc = [p \in Procs |-> Idle]
    /\ last = NoCall
    /\ dbUp = TRUE
    /\ http = NoRequest

(* The handler writes the response of the call that returned.  A returned  *)
(* call is observed before any further step is taken (every step of a     *)
(* call requires last = NoCall), which leaves the order of the steps on    *)
(* the table free.                                                         *)
Respond ==
    /\ last # NoCall
    /\ last' = NoCall
    /\ UNCHANGED <<rows, nextId, now, tz, proc, dbUp, http>>

(* Concurrent requests *)
Next ==
    \/ \E p \in Procs, req \in PlainReqs : CreateCall(p, req)
    \/ \E p \in Procs : CreateInsert(p)
    \/ \E p \in Procs, id \in Ids, req \in PlainReqs : UpdateCall(p, id, req)
    \/ \E p \in Procs : UpdateLookup(p)
    \/ \E p \in Procs : UpdateSave(p)
    \/ \E p \in Procs, id \in Ids : DeleteCall(p, id)
    \/ \E p \in Procs : DeleteSoft(p)
    \/ \E p \in Procs, file \in PlainFiles : ImportVouchersCall(p, file)
    \/ \E p \in Procs : ImportRow(p)
    \/ \E p \in Procs : ImportInsert(p)
    \/ \E p \in Procs, batch \in PlainBatches : ImportBatchCall(p, batch)
    \/ \E p \in Procs : ImportBatchInsert(p)
    \/ Respond

Spec == Init /\ [][Next]_vars

(* One request at a time *)
Sequential == {1}

(* One request at a time, every kind of single-record request *)
NextSingle ==
    \/ \E p \in Sequential, req \in SingleReqs : CreateCall(p, req)
    \/ \E p \in Sequential : CreateInsert(p)
    \/ \E p \in Sequential, id \in Ids, req \in SingleReqs : UpdateCall(p, id, req)
    \/ \E p \in Sequential : UpdateLookup(p)
    \/ \E p \in Sequential : UpdateSave(p)
    \/ \E p \in Sequential, id \in Ids : DeleteCall(p, id)
    \/ \E p \in Sequential : DeleteSoft(p)
    \/ \E p \in Sequential, file \in PlainFiles : ImportVouchersCall(p, file)
    \/ \E p \in Sequential : ImportRow(p)
    \/ \E p \in Sequential : ImportInsert(p)
    \/ \E p \in Sequential, batch \in SingleBatches : ImportBatchCall(p, batch)
    \/ \E p \in Sequential : ImportBatchInsert(p)
    \/ Respond
    \/ Tick

SpecSingle == Init /\ [][NextSingle]_vars

(* One request at a time, every kind of file and batch *)
NextImport ==
    \/ \E p \in Sequential, req \in PlainReqs : CreateCall(p, req)
    \/ \E p \in Sequential : CreateInsert(p)
    \/ \E p \in Sequential, id \in Ids, req \in PlainReqs : UpdateCall(p, id, req)
    \/ \E p \in Sequential : UpdateLookup(p)
    \/ \E p \in Sequential : UpdateSave(p)
    \/ \E p \in Sequential, id \in Ids : DeleteCall(p, id)
    \/ \E p \in Sequential : DeleteSoft(p)
    \/ \E p \in Sequential, file \in CsvFiles : ImportVouchersCall(p, file)
    \/ \E p \in Sequential : ImportRow(p)
    \/ \E p \in Sequential : ImportInsert(p)
    \/ \E p \in Sequential, batch \in Batches : ImportBatchCall(p, batch)
    \/ \E p \in Sequential : ImportBatchInsert(p)
    \/ \E p \in Sequential : ExportVouchers(p)
    \/ Respond
    \/ Tick

SpecImport == Init /\ [][NextImport]_vars

(* One request at a time, over a database that may stop answering *)
NextFaulty ==
    \/ \E p \in Sequential, req \in PlainReqs : CreateCall(p, req)
    \/ \E p \in Sequential : CreateInsert(p)
    \/ \E p \in Sequential, id \in Ids, req \in PlainReqs : UpdateCall(p, id, req)
    \/ \E p \in Sequential : UpdateLookup(p)
    \/ \E p \in Sequential : UpdateSave(p)
    \/ \E p \in Sequential, id \in Ids : DeleteCall(p, id)
    \/ \E p \in Sequential : DeleteSoft(p)
    \/ \E p \in Sequential, file \in FaultyFiles : ImportVouchersCall(p, file)
    \/ \E p \in Sequential : ImportRow(p)
    \/ \E p \in Sequential : ImportInsert(p)
    \/ \E p \in Sequential, batch \in PlainBatches : ImportBatchCall(p, batch)
    \/ \E p \in Sequential : ImportBatchInsert(p)
    \/ \E p \in Sequential : ExportVouchers(p)
    \/ Respond
    \/ Outage

SpecFaulty == Init /\ [][NextFaulty]_vars

(* Requests through the protected group of the router *)
NextAuth ==
    \/ \E route \in ProtectedRoutes, header \in Headers : Receive(route, header)
    \/ AuthMiddleware
    \/ \E status \in HandlerStatuses : Handler(status)
    \/ Finish
    \/ \E email \in Emails, password \in Passwords, signs \in BOOLEAN :
          Login(1, email, password, signs)
    \/ Respond
    \/ Tick

SpecAuth == Init /\ [][NextAuth]_vars

(* One request at a time: the table is filled and emptied, and listed *)
NextList ==
    \/ \E p \in Sequential, req \in ListReqs : CreateCall(p, req)
    \/ \E p \in Sequential : CreateInsert(p)
    \/ \E p \in Sequential, id \in Ids : DeleteCall(p, id)
    \/ \E p \in Sequential : DeleteSoft(p)
    \/ \E p \in Sequential, query \in Queries : GetAll(p, query)
    \/ Respond

SpecList == Init /\ [][NextList]_vars

TypeOK ==
    /\ nextId = Len(rows) + 1
    /\ \A i \in 1..Len(rows) : rows[i].id = i

----------------------------------------------------------------------------
(* Properties.  Preconditions are stated on the table itself, and a call   *)
(* is observed in the step in which it returns: last is NoCall before the  *)
(* step and holds the call after it.                                       *)

HasActive(rs, id) == \E i \in 1..Len(rs) : rs[i].id = id /\ ~rs[i].deleted

ActiveWithCode(rs, code) == {i \in 1..Len(rs) : rs[i].code = code /\ ~rs[i].deleted}

RowOf(rs, id) == rs[CHOOSE i \in 1..Len(rs) : rs[i].id = id]

Returns(op) == last = NoCall /\ last' # NoCall /\ last'.op = op

Made(call, fn) == \E k \in 1..Len(call.calls) : call.calls[k].fn = fn

OutOfRange(d) == d < MinDiscount \/ d > MaxDiscount

ValidCode(c) == c # <<>> /\ Len(c) <= MaxCodeLen

(* C1: after any sequence and any interleaving of Create, Update, Delete,  *)
(* ImportVouchers and ImportBatch calls, every voucher code is held by at  *)
(* most one active (non-soft-deleted) voucher.                             *)
C1_OneActivePerCode ==
    \A i, j \in 1..Len(rows) :
        (~rows[i].deleted /\ ~rows[j].deleted /\ rows[i].code = rows[j].code) => i = j

(* Two calls raced on one new code: this Create found the code free, its   *)
(* insert was refused, and the code is held by exactly one active voucher. *)
C1_RaceLost ==
    /\ last.op = "Create"
    /\ last.result = PersistenceError
    /\ ~last.calls[1].hit
    /\ Cardinality(ActiveWithCode(rows, last.req.code)) = 1

C3_ExpiryAgainstLocalToday ==
    \A k \in 1..Len(last.checks) :
        last.checks[k].passed <=> last.checks[k].day >= DayOf(last.checks[k].at + tz)

(* C4: Create with a code held by an active voucher fails with             *)
(* DuplicateCode before any field validation (whatever the other fields,   *)
(* no date comparison is made), without calling the insert collaborator,   *)
(* and storage is unchanged.                                               *)
C4_CreateDuplicateFirst ==
    [][(Returns("Create") /\ ActiveWithCode(rows, last'.req.code) # {})
         => /\ last'.result = DuplicateCode
            /\ last'.checks = <<>>
            /\ ~Made(last', "Create")
            /\ rows' = rows]_vars

(* A Create with a held code and a date that does not parse *)
C4_DuplicateWithBadDate ==
    /\ last.op = "Create"
    /\ last.result = DuplicateCode
    /\ ParseDate(last.req.date) = BadDate
    /\ ActiveWithCode(rows, last.req.code) # {}

(* C5: Update(id, candidate) for an id that has no active voucher returns  *)
(* NotFound at once and never calls the update (upsert) collaborator; no   *)
(* Update call ever adds a row.                                            *)
C5_UpdateNotFound ==
    [][/\ (Returns("Update") /\ proc' = proc /\ ~HasActive(rows, last'.id))
            => /\ last'.result = NotFound
               /\ last'.calls = <<Call("FindByID", FALSE, 0)>>
               /\ rows' = rows
       /\ \A p \in Procs :
            (proc[p].pc = "idle" /\ proc'[p].pc # "idle" /\ proc'[p].op = "Update")
                => HasActive(rows, proc'[p].id)
       /\ Returns("Update") => Len(rows') = Len(rows)]_vars

(* An Update of the id of a soft-deleted voucher answered NotFound *)
C5_UpdateOfDeleted ==
    /\ last.op = "Update"
    /\ last.result = NotFound
    /\ \E i \in 1..Len(rows) : rows[i].id = last.id /\ rows[i].deleted

(* C6: Update performs the code lookup if and only if the candidate's code *)
(* differs from the record's current code; with the code unchanged (and    *)
(* the other fields valid) it succeeds without any duplicate check; with a *)
(* changed code that another active voucher holds it fails with            *)
(* DuplicateCode and leaves both records unchanged.                        *)
C6_UpdateLookupIffCodeChanged ==
    [][(Returns("Update") /\ HasActive(rows, last'.id))
         => LET current == RowOf(rows, last'.id)
                req == last'.req
                changed == req.code # current.code
                others == {i \in ActiveWithCode(rows, req.code) : rows[i].id # last'.id}
                valid == /\ ~OutOfRange(req.discount)
                         /\ last'.checks # <<>>
                         /\ last'.checks[1].passed
            IN  /\ Made(last', "FindByVoucherCode") <=> changed
                /\ (~changed /\ valid)
                     => /\ last'.result = Ok
                        /\ RowOf(rows', last'.id) =
                              [current EXCEPT !.discount = req.discount,
                                              !.expiry = ParseDate(req.date)]
                /\ (changed /\ others # {})
                     => /\ last'.result = DuplicateCode
                        /\ rows' = rows]_vars

(* An Update that kept the code was saved without a code lookup *)
C6_UnchangedCodeSaved ==
    /\ last.op = "Update"
    /\ last.result = Ok
    /\ last.calls = <<Call("FindByID", TRUE, 0), Call("Update", TRUE, 1)>>
    /\ RowOf(rows, last.id).code = last.req.code

(* C7: Delete(id) for an id that has no active voucher (never created, or  *)
(* already soft-deleted, as in a second Delete of the same id) returns     *)
(* NotFound after the existence check and makes no soft-delete call;       *)
(* storage is unchanged.                                                   *)
C7_DeleteNotFound ==
    [][(Returns("Delete") /\ ~HasActive(rows, last'.id))
         => /\ last'.result = NotFound
            /\ last'.calls = <<Call("FindByID", FALSE, 0)>>
            /\ rows' = rows]_vars

(* A Delete of an id whose voucher is already soft-deleted answered NotFound *)
C7_SecondDelete ==
    /\ last.op = "Delete"
    /\ last.result = NotFound
    /\ \E i \in 1..Len(rows) : rows[i].id = last.id /\ rows[i].deleted

(* C8: once Delete(id) has succeeded the voucher is never returned again   *)
(* by find-by-id, find-by-code, the paged find (the active rows) or the    *)
(* batched existence query, in any later state, and its row stays in the   *)
(* table with deletedAt set (no row is ever removed).                      *)
C8_DeletedStaysDeleted ==
    [][\A i \in 1..Len(rows) :
          rows[i].deleted
            => /\ Len(rows') >= Len(rows)
               /\ rows'[i].id = rows[i].id
               /\ rows'[i].deleted
               /\ FindByID(rows', rows[i].id) = <<>>
               /\ \A r \in Seq2Set(FindByVoucherCode(rows', rows'[i].code)) :
                     r.id # rows[i].id
               /\ \A r \in Seq2Set(ActiveRows(rows')) : r.id # rows[i].id
               /\ (CheckDuplicateCodes(rows', <<rows'[i].code>>) # <<>>
                     => \E j \in 1..Len(rows') : j # i /\ rows'[j].code = rows'[i].code)]_vars

(* C9: every CSV import that returns a report has totalRows = number of    *)
(* data rows (all rows after the header) = success + failed, failed =      *)
(* length of errors, and success = number of records handed to and         *)
(* inserted by the single bulk insert.                                     *)
C9_ImportReportCounts ==
    [][(Returns("ImportVouchers") /\ last'.result = Report)
         => LET result == last'.importResult
                IsBulk(c) == c.fn = "BulkCreate"
                bulk == SelectSeq(last'.calls, IsBulk)
                handed == IF bulk = <<>> THEN 0 ELSE bulk[1].n
            IN  /\ result.TotalRows = Len(last'.file) - 1
                /\ result.TotalRows = result.Success + result.Failed
                /\ result.Failed = Len(result.Errors)
                /\ Len(bulk) <= 1
                /\ result.Success = handed
                /\ result.Success = Len(rows') - Len(rows)]_vars

(* A report of a file with an accepted and a refused row *)
C9_MixedReport ==
    /\ last.op = "ImportVouchers"
    /\ last.result = Report
    /\ last.importResult.Success = 1
    /\ last.importResult.Failed = 1

(* C10: in CSV import every failing data row adds exactly one error whose  *)
(* row number is its position in the file counting the header as row 1     *)
(* (the k-th data row is row k+1); the row is excluded from insertion,     *)
(* every later row is still processed, and the errors are in file order.   *)
C10_RowErrors ==
    [][(Returns("ImportVouchers") /\ last'.result = Report)
         => LET file == last'.file
                errors == last'.importResult.Errors
                n == Len(file) - 1
                failing == {k \in 1..n : parseCSVRow(rows, file[k + 1]) # Ok}
                passing == (1..n) \ failing
                added == SubSeq(rows', Len(rows) + 1, Len(rows'))
            IN  /\ Len(errors) = Cardinality(failing)
                /\ {errors[j].Row : j \in 1..Len(errors)} = {k + 1 : k \in failing}
                /\ \A j \in 1..Len(errors) :
                      errors[j].Error = parseCSVRow(rows, file[errors[j].Row])
                /\ \A j \in 1..(Len(errors) - 1) : errors[j].Row < errors[j + 1].Row
                /\ Len(added) = Cardinality(passing)
                /\ \A j \in 1..Len(added) :
                      \E k \in passing :
                         /\ added[j].code = TrimSpace(file[k + 1][1])
                         /\ Cardinality({m \in passing : m < k}) = j - 1]_vars

(* A report whose first data row was refused and whose second was inserted *)
C10_LaterRowInserted ==
    /\ last.op = "ImportVouchers"
    /\ last.result = Report
    /\ Len(last.importResult.Errors) = 1
    /\ last.importResult.Errors[1].Row = 2
    /\ last.importResult.Success = 1

(* C11: in CSV import a data row with fewer than three columns is a       *)
(* row-level InsufficientColumns error reported with its row number; the   *)
(* other rows are still processed and the call returns a report, whatever  *)
(* the number of columns of the header row.                                *)
C11_ShortRowIsRowError ==
    [][(/\ Returns("ImportVouchers")
        /\ Len(last'.file) >= FirstDataRow
        /\ \E k \in FirstDataRow..Len(last'.file) : Len(last'.file[k]) < MinColumns)
         => LET file == last'.file
                errors == last'.importResult.Errors
            IN  /\ last'.result = Report
                /\ last'.importResult.TotalRows = Len(file) - 1
                /\ \A k \in FirstDataRow..Len(file) :
                      Len(file[k]) < MinColumns
                         => \E j \in 1..Len(errors) :
                               errors[j] = [Row |-> k, Error |-> InsufficientColumns]]_vars

(* C12: a CSV file with no row at all, or with only the header row, fails *)
(* the whole call with EmptyImport: no report is returned and no           *)
(* repository call is made (no lookup, no bulk insert).                    *)
C12_EmptyImport ==
    [][(Returns("ImportVouchers") /\ Len(last'.file) <= 1)
         => /\ last'.result = EmptyImport
            /\ last'.importResult = NoImportResult
            /\ last'.calls = <<>>
            /\ rows' = rows]_vars

(* An import of the header row alone has been refused *)
C12_HeaderOnly ==
    /\ last.op = "ImportVouchers"
    /\ Len(last.file) = 1
    /\ last.result = EmptyImport

(* C13: for a batch of N candidates of which M carry a code held by an    *)
(* active voucher, the report has totalReceived = N and duplicates = M =   *)
(* the length of duplicateCodes (a duplicate is counted whether or not its *)
(* other fields are valid, and is then neither validated nor inserted),    *)
(* inserted = N - M - the validation failures among the non-duplicates,    *)
(* and so totalReceived = inserted + duplicates + the number of errors.    *)
C13_BatchReportCounts ==
    [][(Returns("ImportBatch") /\ last'.result = Report)
         => LET batch == last'.batch
                result == last'.batchResult
                N == Len(batch)
                dup == {i \in 1..N : ActiveWithCode(rows, batch[i].code) # {}}
                M == Cardinality(dup)
                failures == {i \in (1..N) \ dup : validateAndConvert(batch[i]) # Ok}
                IsDup(req) == ActiveWithCode(rows, req.code) # {}
                dupReqs == SelectSeq(batch, IsDup)
            IN  /\ result.TotalReceived = N
                /\ result.Duplicates = M
                /\ Len(result.DuplicateCodes) = M
                /\ \A j \in 1..M : result.DuplicateCodes[j] = dupReqs[j].code
                /\ result.Inserted = N - M - Cardinality(failures)
                /\ Len(result.Errors) = Cardinality(failures)
                /\ \A j \in 1..Len(result.Errors) :
                      \A i \in dup : result.Errors[j].Code # batch[i].code
                /\ Len(rows') - Len(rows) = result.Inserted
                /\ result.TotalReceived
                      = result.Inserted + result.Duplicates + Len(result.Errors)]_vars

(* A report of a batch of two: one candidate with an active voucher's code *)
(* and a discount out of range, counted as a duplicate; the other inserted *)
C13_InvalidDuplicateCounted ==
    /\ last.op = "ImportBatch"
    /\ last.result = Report
    /\ last.batchResult.Duplicates = 1
    /\ last.batchResult.Inserted = 1
    /\ last.batchResult.Errors = <<>>
    /\ \E i \in 1..Len(last.batch) :
          /\ last.batch[i].code = last.batchResult.DuplicateCodes[1]
          /\ OutOfRange(last.batch[i].discount)

(* C14: every ImportBatch call issues exactly one batched existence query *)
(* over all the candidate codes, before any candidate is validated (so     *)
(* also when none would pass), and never a per-code lookup, whatever the   *)
(* number of candidates; then at most one bulk insert, of the valid        *)
(* non-duplicate candidates, and none when no candidate is valid.          *)
C14_OneQueryOneInsert ==
    [][Returns("ImportBatch")
         => LET batch == last'.batch
                calls == last'.calls
                N == Len(batch)
                IsQuery(c) == c.fn = "CheckDuplicateCodes"
                IsBulk(c) == c.fn = "BulkCreate"
                good == {i \in 1..N : /\ ActiveWithCode(rows, batch[i].code) = {}
                                      /\ validateAndConvert(batch[i]) = Ok}
            IN  /\ Len(calls) >= 1
                /\ calls[1].fn = "CheckDuplicateCodes"
                /\ calls[1].n = N
                /\ Len(SelectSeq(calls, IsQuery)) = 1
                /\ ~Made(last', "FindByVoucherCode")
                /\ ~Made(last', "FindByID")
                /\ Len(calls) = 1 + Len(SelectSeq(calls, IsBulk))
                /\ Len(calls) <= 2
                /\ (good = {}) <=> (Len(calls) = 1)
                /\ Len(calls) = 2 => calls[2].n = Cardinality(good)]_vars

(* A batch of two candidates, both refused by validation: one query over   *)
(* the two codes and no bulk insert                                        *)
C14_NothingValid ==
    /\ last.op = "ImportBatch"
    /\ last.result = Report
    /\ Len(last.batch) = 2
    /\ Len(last.batchResult.Errors) = 2
    /\ last.calls = <<Call("CheckDuplicateCodes", FALSE, 2)>>

(* C15: in batch import a duplicate or invalid candidate never aborts the *)
(* batch: every other valid, non-duplicate candidate is still handed to    *)
(* the bulk insert, and the call returns a report rather than an error     *)
(* (an error can only come from the bulk insert itself).                   *)
C15_BatchNotAborted ==
    [][(/\ Returns("ImportBatch")
        /\ \E i \in 1..Len(last'.batch) :
              \/ ActiveWithCode(rows, last'.batch[i].code) # {}
              \/ validateAndConvert(last'.batch[i]) # Ok)
         => LET batch == last'.batch
                calls == last'.calls
                IsGood(req) == /\ ActiveWithCode(rows, req.code) = {}
                               /\ validateAndConvert(req) = Ok
                good == SelectSeq(batch, IsGood)
                added == SubSeq(rows', Len(rows) + 1, Len(rows'))
                bulkFailed == /\ calls[Len(calls)].fn = "BulkCreate"
                              /\ calls[Len(calls)].failed
            IN  /\ good # <<>> => /\ calls[Len(calls)].fn = "BulkCreate"
                                  /\ calls[Len(calls)].n = Len(good)
                /\ last'.result = Report \/ bulkFailed
                /\ last'.result = Report
                      => /\ Len(added) = Len(good)
                         /\ \A j \in 1..Len(good) :
                               /\ added[j].code = good[j].code
                               /\ added[j].discount = good[j].discount
                               /\ ~added[j].deleted]_vars

(* A report of a batch of two: one candidate refused by validation, the    *)
(* other inserted                                                          *)
C15_InvalidBesideInserted ==
    /\ last.op = "ImportBatch"
    /\ last.result = Report
    /\ Len(last.batchResult.Errors) = 1
    /\ last.batchResult.Inserted = 1

(* C16: when the final bulk insert fails, in the CSV import or the batch  *)
(* import, the whole call fails with an error: no report is returned and   *)
(* none of the validated records is persisted (no partial commit).         *)
C16_BulkInsertAllOrNothing ==
    [][(/\ Returns("ImportVouchers") \/ Returns("ImportBatch")
        /\ last'.calls # <<>>
        /\ last'.calls[Len(last'.calls)].fn = "BulkCreate"
        /\ Len(rows') < Len(rows) + last'.calls[Len(last'.calls)].n)
         => /\ last'.result = PersistenceError
            /\ last'.importResult = NoImportResult
            /\ last'.batchResult = NoBatchResult
            /\ rows' = rows]_vars

(* A CSV import of two accepted rows whose bulk insert was refused *)
C16_RefusedBulkInsert ==
    /\ last.op = "ImportVouchers"
    /\ last.result = PersistenceError
    /\ last.calls[Len(last.calls)] = Wrote("BulkCreate", FALSE, 2)

(* C17: the failure of any repository call (find by id, find by code, the *)
(* batched existence query, insert, bulk insert, update, soft delete) is   *)
(* fatal for the service call that made it: the call returns an error at   *)
(* once, without retrying and without continuing, including when a per-row *)
(* code lookup fails during CSV import.                                    *)
C17_RepositoryFailureIsFatal ==
    [][(/\ last = NoCall
        /\ last' # NoCall
        /\ \E k \in 1..Len(last'.calls) : last'.calls[k].failed)
         => /\ last'.result = PersistenceError
            /\ \A k \in 1..Len(last'.calls) :
                  last'.calls[k].failed => k = Len(last'.calls)
            /\ last'.importResult = NoImportResult
            /\ last'.batchResult = NoBatchResult
            /\ rows' = rows]_vars

(* C18: an export is the header row followed by exactly one row for every *)
(* active voucher in the table, however many there are, and no row for a   *)
(* soft-deleted one, in ascending order of creation time.  Stated of the   *)
(* export that has just returned, and of every document an export of       *)
(* BigTable may return.                                                    *)
C18_Complete(rs, document) ==
    LET active == {i \in 1..Len(rs) : ~rs[i].deleted}
        Created(code) == rs[CHOOSE i \in active : rs[i].code = code].createdAt
    IN  /\ Len(document) = Cardinality(active) + 1
        /\ document[1] = <<"voucher_code", "discount_percent", "expiry_date">>
        /\ {document[k][1] : k \in 2..Len(document)} = {rs[i].code : i \in active}
        /\ \A k \in 2..(Len(document) - 1) :
              Created(document[k][1]) <= Created(document[k + 1][1])

C18_ExportAllActive ==
    /\ (last.op = "ExportVouchers" /\ last.result = Ok)
          => C18_Complete(rows, last.document)
    /\ \A document \in ExportDocuments(BigTable) : C18_Complete(BigTable, document)

(* C19: round trip.  For every data row a CSV import accepted, an export  *)
(* that follows it has a row whose code is the trimmed code of the input,  *)
(* whose date is the input date in the canonical YYYY-MM-DD form and whose *)
(* discount is the input discount written with two fractional digits.      *)
C19_TwoDecimals(field) ==
    CASE field \in {"10", "10.00"} -> "10.00"
      [] field = " 50 " -> "50.00"
      [] field = "100" -> "100.00"
      [] OTHER -> "?"

C19_Canonical(field) ==
    CASE field \in {"1970-01-03", " 1970-01-03"} -> "1970-01-03"
      [] field = "1970-01-02" -> "1970-01-02"
      [] field = "1970-01-01" -> "1970-01-01"
      [] OTHER -> "?"

C19_Trimmed(code) ==
    CASE code = cPadA -> cA
      [] OTHER -> code

C19_RoundTrip ==
    (/\ last.op = "ExportVouchers"
     /\ last.result = Ok
     /\ last.importResult # NoImportResult)
       => LET file == last.file
              errors == last.importResult.Errors
              document == last.document
              accepted == {k \in FirstDataRow..Len(file) :
                              \A j \in 1..Len(errors) : errors[j].Row # k}
          IN  \A k \in accepted :
                 \E m \in 2..Len(document) :
                    document[m] = <<C19_Trimmed(file[k][1]),
                                    C19_TwoDecimals(file[k][2]),
                                    C19_Canonical(file[k][3])>>

(* An export after the import of a row with a padded code, a padded whole  *)
(* discount and a padded date                                              *)
C19_PaddedRowExported ==
    /\ last.op = "ExportVouchers"
    /\ last.result = Ok
    /\ last.importResult.Success = 2
    /\ \E k \in FirstDataRow..Len(last.file) :
          last.file[k] = <<cPadA, " 50 ", " 1970-01-03">>
    /\ \E m \in 2..Len(last.document) :
          last.document[m] = <<cA, "50.00", "1970-01-03">>

(* C20: export is idempotent.  After an import, two exports with no write *)
(* between them return the same document: the same rows in the same order  *)
(* (creation time ascending), also for the records one bulk insert made.   *)
C20_ExportIdempotent ==
    [][(/\ last.op = "ExportVouchers"
        /\ last.result = Ok
        /\ last'.op = "ExportVouchers"
        /\ last'.result = Ok
        /\ rows' = rows)
         => last'.document = last.document]_vars

(* C21: when calls (Create, CSV import, batch import) race on one new     *)
(* code and each passes its existence check before the other inserts, the  *)
(* unique index is the backstop: the insert that comes first succeeds, the *)
(* insert of the losing call is refused whole, that call ends with a       *)
(* persistence error after its one insert attempt (no retry), and the      *)
(* table never holds two active vouchers with one code.                    *)
C21_Pending(st) ==
    IF st.pc = "Create.insert" THEN <<st.voucher>>
    ELSE IF st.pc \in {"Import.insert", "Batch.insert"} THEN st.valid
    ELSE <<>>

C21_IsInsert(c) == c.fn \in {"Create", "BulkCreate"}

C21_UniqueIndexBackstop ==
    [][\A p \in Procs :
          LET pending == C21_Pending(proc[p])
              codes == {pending[k].code : k \in 1..Len(pending)}
              added == SubSeq(rows', Len(rows) + 1, Len(rows'))
          IN  (pending # <<>> /\ proc'[p].pc = "idle")
                 => /\ Len(SelectSeq(last'.calls, C21_IsInsert)) = 1
                    /\ (\E c \in codes : ActiveWithCode(rows, c) # {})
                          => /\ last'.result = PersistenceError
                             /\ rows' = rows
                    /\ (\A c \in codes : \A i \in 1..Len(rows) : rows[i].code # c)
                          => /\ last'.result \in {Ok, Report}
                             /\ Len(added) = Len(pending)
                             /\ \A k \in 1..Len(pending) :
                                   added[k].code = pending[k].code /\ ~added[k].deleted
                    /\ \A c \in codes : Cardinality(ActiveWithCode(rows', c)) <= 1]_vars

(* A batch import found both its codes free, and its bulk insert was       *)
(* refused because another call had inserted one of them meanwhile         *)
C21_BatchLostRace ==
    /\ last.op = "ImportBatch"
    /\ last.result = PersistenceError
    /\ last.calls = <<Call("CheckDuplicateCodes", FALSE, 2), Wrote("BulkCreate", FALSE, 2)>>
    /\ \E i \in 1..Len(last.batch) :
          Cardinality(ActiveWithCode(rows, last.batch[i].code)) = 1

(* C22: the handler of a protected route runs only for a request whose    *)
(* Authorization header is present, starts with "Bearer " and carries a    *)
(* token the JWT service validates; in every other case the middleware     *)
(* answers 401 and aborts the chain, and the handler never runs.           *)
C22_Accepted(at) ==
    {BearerPrefix \o <<"t.bob">>, BearerPrefix \o <<"t.noexp">>}
        \cup (IF at < 30 THEN {BearerPrefix \o <<"t.alice">>} ELSE {})

C22_HandlerOnlyAfterAuth ==
    [][/\ (http.stage = "middleware" /\ http' # http)
          => /\ (http'.stage = "handler") <=> (http.header \in C22_Accepted(now))
             /\ http'.stage # "handler"
                   => /\ http'.stage = "done"
                      /\ http'.status = StatusUnauthorized
                      /\ ~http'.ran
             /\ http'.route = http.route
       /\ (http'.ran /\ ~http.ran) => http.stage = "handler"
       /\ (http.stage = "done" /\ ~http.ran) => http.status = StatusUnauthorized]_vars

(* A request with a well-signed token that has expired was answered 401 *)
C22_ExpiredRefused ==
    /\ http.stage = "done"
    /\ http.header = BearerPrefix \o <<"t.alice">>
    /\ http.status = StatusUnauthorized
    /\ ~http.ran

(* C23: Login succeeds for every email and password, the empty ones        *)
(* included, returning the generated token and a user carrying that email, *)
(* and never consults the user repository; it fails exactly when token     *)
(* generation fails, and then returns that error, no token and no user.    *)
C23_LoginAcceptsAll ==
    [][Returns("Login")
          => LET l == last'.login
                 signing == last'.calls[1]
             IN  /\ Len(last'.calls) = 1
                 /\ signing.fn = "GenerateToken"
                 /\ (last'.result = Ok) <=> ~signing.failed
                 /\ ~signing.failed
                       => /\ Len(l.token) = 1
                          /\ l.token[1].email = l.email
                          /\ l.token[1].key = SecretKey
                          /\ l.token[1].exp = now + Expiration
                          /\ l.user = <<[email |-> l.email]>>
                 /\ signing.failed
                       => /\ last'.result = TokenError
                          /\ l.token = <<>>
                          /\ l.user = <<>>]_vars

(* A login with empty email and empty password got a token and a user *)
C23_EmptyCredentials ==
    /\ last.op = "Login"
    /\ last.result = Ok
    /\ last.login.email = ""
    /\ last.login.password = ""
    /\ last.login.token # <<>>
    /\ last.login.user = <<[email |-> ""]>>

(* C24: for page p >= 1 and limit L >= 1 the paged find returns the        *)
(* records at positions (p-1)*L+1 .. p*L of the list, ordered as asked, of *)
(* the active vouchers that match the search: fewer on the last page, none *)
(* beyond it; the total is the count of all matching active vouchers,      *)
(* whatever p and L are.  Among vouchers with equal sort keys any order is *)
(* an order of the list.                                                   *)
C24_Fold(text) ==
    [i \in 1..Len(text) |->
        IF text[i] = "A" THEN "a" ELSE IF text[i] = "B" THEN "b" ELSE text[i]]

C24_Contains(code, search) ==
    \E k \in 1..(Len(code) - Len(search) + 1) :
       SubSeq(C24_Fold(code), k, k + Len(search) - 1) = C24_Fold(search)

C24_Key(r, sortBy) ==
    IF sortBy = "created_at" THEN r.createdAt
    ELSE IF sortBy = "discount_percent" THEN r.discount
    ELSE r.expiry

C24_Ahead(a, b, sortBy, sortOrder) ==
    IF sortOrder = "asc" THEN C24_Key(a, sortBy) < C24_Key(b, sortBy)
    ELSE C24_Key(a, sortBy) > C24_Key(b, sortBy)

C24_PageOfOrderedList ==
    [][Returns("GetAll") /\ last'.list.page >= 1 /\ last'.list.limit >= 1
          => LET l == last'.list
                 matching == {i \in 1..Len(rows) :
                                /\ ~rows[i].deleted
                                /\ l.search = <<>> \/ C24_Contains(rows[i].code, l.search)}
                 count == Cardinality(matching)
                 first == (l.page - 1) * l.limit + 1
                 left == count - first + 1
                 length == IF left <= 0 THEN 0 ELSE IF left < l.limit THEN left ELSE l.limit
                 by == l.sortBy
                 dir == l.sortOrder
             IN  /\ last'.result = Ok
                 /\ l.total = count
                 /\ Len(l.vouchers) = length
                 /\ \A j \in 1..Len(l.vouchers) :
                       LET v == l.vouchers[j]
                           position == first + j - 1
                           ahead == {i \in matching : C24_Ahead(rows[i], v, by, dir)}
                           behind == {i \in matching : C24_Ahead(v, rows[i], by, dir)}
                       IN  /\ \E i \in matching : rows[i] = v
                           /\ Cardinality(ahead) <= position - 1
                           /\ Cardinality(behind) <= count - position
                           /\ \A k \in 1..(j - 1) : l.vouchers[k] # v
                           /\ \A k \in 1..(j - 1) : ~C24_Ahead(v, l.vouchers[k], by, dir)]_vars

(* The second page of one, of three matching vouchers out of which two     *)
(* have the discount the page is sorted by                                 *)
C24_SecondPage ==
    /\ last.op = "GetAll"
    /\ last.result = Ok
    /\ last.list.page = 2
    /\ last.list.limit = 2
    /\ last.list.sortBy = "discount_percent"
    /\ last.list.total = 3
    /\ Len(last.list.vouchers) = 1
    /\ Len(rows) = 3

(* C30: whatever the page and limit query values of a list request are    *)
(* (absent, not a number, zero, negative), the handler passes the service  *)
(* a page >= 1 and a limit >= 1, so the offset (page-1)*limit is never     *)
(* negative and the computation of the total pages never divides by zero.  *)
C30_PageAndLimitInRange ==
    [][Returns("GetAll")
          => /\ last'.list.page >= 1
             /\ last'.list.limit >= 1
             /\ last'.list.offset >= 0
             /\ last'.result # Panic]_vars

(* C25: a successful Update(id, candidate) overwrites exactly the code,    *)
(* the discount and the expiry date of the voucher with that id: its id    *)
(* and creation time and everything else of it stay, every other voucher   *)
(* stays as it is, and the number of rows stays the same.                  *)
C25_UpdateFrame ==
    [][\A p \in Procs :
          (proc[p].pc = "Update.save" /\ proc'[p].pc = "idle" /\ last'.result = Ok)
             => /\ Len(rows') = Len(rows)
                /\ \A i \in 1..Len(rows) :
                      rows'[i] = IF rows[i].id = proc[p].id
                                 THEN [rows[i] EXCEPT
                                          !.code = proc[p].req.code,
                                          !.discount = proc[p].req.discount,
                                          !.expiry = ParseDate(proc[p].req.date)]
                                 ELSE rows[i]]_vars

(* C29: in every interleaving of an Update(id) and a Delete(id) running at *)
(* the same time, the save of the Update, an upsert, creates no new row    *)
(* and makes no soft-deleted voucher active again.                         *)
C29_UpdateNeverResurrects ==
    [][\A p \in Procs :
          (proc[p].pc = "Update.save" /\ proc'[p].pc = "idle")
             => /\ Len(rows') = Len(rows)
                /\ \A i \in 1..Len(rows) : rows[i].deleted => rows'[i].deleted]_vars

(* C26: validation fails on the first violated rule of a fixed order:     *)
(* code empty, code too long, discount not a number, discount out of       *)
(* range, date of invalid format, expiry in the past.  A candidate that    *)
(* violates one of the first five rules is refused with the reason of the  *)
(* earliest one it violates, in Create, in Update, in the validation of a  *)
(* CSV row and in the validation of a batch candidate.  The candidates are *)
(* those whose code no voucher holds, so a duplicate is not in question.   *)
C26_None == "none of the first five"

C26_First(code, discount, day) ==
    IF code = <<>> THEN EmptyCode
    ELSE IF Len(code) > MaxCodeLen THEN CodeTooLong
    ELSE IF discount = NotANumber THEN InvalidDiscount
    ELSE IF discount < MinDiscount \/ discount > MaxDiscount THEN DiscountOutOfRange
    ELSE IF day = BadDate THEN InvalidDateFormat
    ELSE C26_None

C26_OfReq(req) == C26_First(req.code, req.discount, ParseDate(req.date))

C26_OfRecord(record) ==
    C26_First(TrimSpace(record[1]), ParseFloat(TrimField(record[2])),
              ParseDate(TrimField(record[3])))

C26_Free(code) == \A i \in 1..Len(rows) : rows[i].code # code

C27_GoodRecord(record) ==
    /\ Len(record) >= MinColumns
    /\ ValidCode(TrimSpace(record[1]))
    /\ ParseFloat(TrimField(record[2])) # NotANumber
    /\ ~OutOfRange(ParseFloat(TrimField(record[2])))
    /\ ParseDate(TrimField(record[3])) # BadDate
    /\ ~ExpiredTruncated(ParseDate(TrimField(record[3])))
    /\ ActiveWithCode(rows, TrimSpace(record[1])) = {}

C27_GoodReq(req) ==
    /\ ValidCode(req.code)
    /\ ~OutOfRange(req.discount)
    /\ ParseDate(req.date) # BadDate
    /\ ~ExpiredTruncated(ParseDate(req.date))
    /\ ActiveWithCode(rows, req.code) = {}

C27_Handed(st, code) == {k \in 1..Len(st.valid) : st.valid[k].code = code}

C27_BulkCreates(call) == {k \in 1..Len(call.calls) : call.calls[k].fn = "BulkCreate"}

C27_TwiceInFile(st) ==
    {code \in {TrimSpace(st.file[k][1]) :
                  k \in {j \in FirstDataRow..Len(st.file) : st.file[j] # <<>>}} :
        \E k1, k2 \in FirstDataRow..Len(st.file) :
           /\ k1 < k2
           /\ C27_GoodRecord(st.file[k1])
           /\ C27_GoodRecord(st.file[k2])
           /\ TrimSpace(st.file[k1][1]) = code
           /\ TrimSpace(st.file[k2][1]) = code}

C27_TwiceInBatch(st) ==
    {code \in {st.batch[k].code : k \in 1..Len(st.batch)} :
        \E k1, k2 \in 1..Len(st.batch) :
           /\ k1 < k2
           /\ C27_GoodReq(st.batch[k1])
           /\ C27_GoodReq(st.batch[k2])
           /\ st.batch[k1].code = code
           /\ st.batch[k2].code = code}

C27_NoCheckWithinSubmission ==
    [][\A p \in Procs :
          /\ (/\ proc[p].pc = "Import.row"
              /\ proc[p].i + 1 = Len(proc[p].file)
              /\ proc'[p].pc # "Import.row")
               => \A code \in C27_TwiceInFile(proc[p]) :
                     /\ proc'[p].pc = "Import.insert"
                     /\ Cardinality(C27_Handed(proc'[p], code)) >= 2
          /\ (/\ proc[p].pc \in {"Import.insert", "Batch.insert"}
              /\ proc'[p].pc = "idle")
               => \A code \in C27_TwiceInFile(proc[p]) \cup C27_TwiceInBatch(proc[p]) :
                     /\ Cardinality(C27_Handed(proc[p], code)) >= 2
                     /\ Cardinality(C27_BulkCreates(last')) = 1
                     /\ last'.calls[Len(last'.calls)].fn = "BulkCreate"
                     /\ last'.calls[Len(last'.calls)].n = Len(proc[p].valid)]_vars

(* A batch of the same valid candidate twice went whole to the bulk insert *)
C27_SameCodeTwice ==
    /\ last.op = "ImportBatch"
    /\ Len(last.batch) = 2
    /\ last.batch[1].code = last.batch[2].code
    /\ last.batchResult.Duplicates = 0
    /\ last.calls = <<Call("CheckDuplicateCodes", FALSE, 2), Wrote("BulkCreate", FALSE, 2)>>

(* C28: a code held only by a soft-deleted voucher is free for reuse:      *)
(* after Delete of the voucher with code c, a Create, a CSV row or a batch *)
(* candidate with code c and valid fields is not reported as a duplicate   *)
(* and is persisted as a new active voucher.                               *)
C28_OnlyDeleted(code) ==
    /\ \E i \in 1..Len(rows) : rows[i].code = code /\ rows[i].deleted
    /\ \A i \in 1..Len(rows) : rows[i].code = code => rows[i].deleted

C28_DeletedCodeReusable ==
    [][\A p \in Procs :
          /\ (/\ proc[p].pc = "Create.insert"
              /\ proc'[p].pc = "idle"
              /\ C28_OnlyDeleted(proc[p].voucher.code))
               => /\ last'.result = Ok
                  /\ Len(rows') = Len(rows) + 1
                  /\ Cardinality(ActiveWithCode(rows', proc[p].voucher.code)) = 1
          /\ (/\ proc[p].pc \in {"Import.insert", "Batch.insert"}
              /\ proc'[p].pc = "idle"
              /\ Len(proc[p].valid) = 1
              /\ C28_OnlyDeleted(proc[p].valid[1].code))
               => /\ last'.result = Report
                  /\ Len(rows') = Len(rows) + 1
                  /\ Cardinality(ActiveWithCode(rows', proc[p].valid[1].code)) = 1]_vars

====
